---- MODULE Spec2Model ----
(***************************************************************************)
(* A model of curse-parser (github.com/founderio/curse-parser):            *)
(*   - the multi-page files aggregation of FetchCurseForge /               *)
(*     CurseForge.ParseCurseForge / parseCFFiles (curseforge.go),          *)
(*   - the compiled-XPath cache XpathCache and its typed accessors         *)
(*     (util.go), used sequentially and from several goroutines.           *)
(* Texts are sequences of one-character strings.                           *)
(***************************************************************************)
EXTENDS Integers, Sequences, FiniteSets, TLC

(***************************************************************************)
(* Bounds of the model.                                                    *)
(***************************************************************************)
\* highest page index that a pagination label of the first files page shows
MaxPageIndex == 3
\* turns of the page loop followed one by one when the page count is a
\* number of 64 bits
MaxTurns == 5
\* rows (file records) one listing page holds at most
MaxRows == 2
\* calls of cache operations that one goroutine makes at most
MaxCalls == 2

(***************************************************************************)
(* curseforge.go: sections and options (bit flags).                        *)
(***************************************************************************)
CFSectionHeader == 0
CFSectionOverview == 1
CFSectionFiles == 2
CFSectionImages == 4
CFOptionNone == 0
CFOptionOverviewRecentFiles == 1
CFOptionFilesNoPagination == 2

\* (s & sec) != 0 for a single-bit sec; true for sec = 0
SectionsHas(s, sec) ==
    IF sec = CFSectionHeader THEN TRUE ELSE (s \div sec) % 2 = 1

OptionsHas(o, opt) ==
    IF opt = CFOptionNone THEN TRUE ELSE (o \div opt) % 2 = 1

\* the keys of the map DeriveCurseForgeURLs returns
DerivedSections == {CFSectionOverview, CFSectionFiles, CFSectionImages}

(***************************************************************************)
(* Texts, strings.TrimSpace, strings.Replace(s, ",", "", -1) and           *)
(* strconv.ParseUint(s, 10, 64) as ParseUInt uses them (util.go).          *)
(***************************************************************************)
Digits == <<"0", "1", "2", "3", "4", "5", "6", "7", "8", "9">>

IsDigit(c) == \E i \in 1..10 : Digits[i] = c

DigitVal(c) == (CHOOSE i \in 1..10 : Digits[i] = c) - 1

IsSpace(c) == c \in {" ", "\n", "\t"}

RECURSIVE TrimLeft(_)
TrimLeft(s) ==
    IF s # <<>> /\ IsSpace(Head(s)) THEN TrimLeft(Tail(s)) ELSE s

RECURSIVE TrimRight(_)
TrimRight(s) ==
    IF s # <<>> /\ IsSpace(s[Len(s)])
    THEN TrimRight(SubSeq(s, 1, Len(s) - 1))
    ELSE s

TrimSpace(s) == TrimRight(TrimLeft(s))

\* a mutant of RemoveCommas: only the first comma is removed
RemoveCommasOnce(s) ==
    IF \E i \in 1..Len(s) : s[i] = ","
    THEN LET i == CHOOSE k \in 1..Len(s) :
                      s[k] = "," /\ \A j \in 1..(k - 1) : s[j] # ","
         IN SubSeq(s, 1, i - 1) \o SubSeq(s, i + 1, Len(s))
    ELSE s

\* strings.Replace(s, ",", "", -1)
RemoveCommas(s) == SelectSeq(s, LAMBDA c : c # ",")

RECURSIVE StripZeros(_)
StripZeros(s) ==
    IF s # <<>> /\ Head(s) = "0" THEN StripZeros(Tail(s)) ELSE s

\* the decimal digits of 2^64 - 1
MaxUint64Digits ==
    <<"1", "8", "4", "4", "6", "7", "4", "4", "0", "7",
      "3", "7", "0", "9", "5", "5", "1", "6", "1", "5">>

RECURSIVE DigitsLess(_, _)
\* a < b for two digit texts of the same length
DigitsLess(a, b) ==
    IF a = <<>> THEN FALSE
    ELSE IF Head(a) # Head(b) THEN DigitVal(Head(a)) < DigitVal(Head(b))
    ELSE DigitsLess(Tail(a), Tail(b))

\* the digit text denotes a value above 2^64 - 1
OverflowsUint64(s) ==
    LET d == StripZeros(s)
    IN Len(d) > 20 \/ (Len(d) = 20 /\ DigitsLess(MaxUint64Digits, d))

RECURSIVE DigitsValue(_)
DigitsValue(s) ==
    IF s = <<>> THEN 0
    ELSE 10 * DigitsValue(SubSeq(s, 1, Len(s) - 1)) + DigitVal(s[Len(s)])

\* a number is kept as its decimal numeral, so that no value of 64 bits is
\* cut: the digits without leading zeros, after "-" when it is negative
Numeral(s) == IF StripZeros(s) = <<>> THEN <<"0">> ELSE StripZeros(s)

Zero == <<"0">>

\* a mutant of StrconvParseUint: the digits of the text are the number,
\* whatever else it holds
StrconvParseUintLenient(s) ==
    [val |-> Numeral(SelectSeq(s, IsDigit)), clamp |-> "none", err |-> "nil"]

\* strconv.ParseUint(s, 10, 64): [val, clamp, err]; on a range error the
\* value returned is the largest uint64, written clamp = "max"
StrconvParseUint(s) ==
    IF s = <<>> \/ \E i \in 1..Len(s) : ~IsDigit(s[i])
    THEN [val |-> Zero, clamp |-> "none", err |-> "invalid syntax"]
    ELSE IF OverflowsUint64(s)
    THEN [val |-> Zero, clamp |-> "max", err |-> "value out of range"]
    ELSE [val |-> Numeral(s), clamp |-> "none", err |-> "nil"]

\* a mutant of ParseUInt: the dash test is on the text as given
ParseUIntExactDash(parseString) ==
    IF parseString = <<"-">>
    THEN [val |-> Zero, clamp |-> "none", err |-> "nil"]
    ELSE StrconvParseUint(RemoveCommas(parseString))

\* util.go ParseUInt: the dash test is on the trimmed text, the number is
\* parsed from the untrimmed parseString
ParseUInt(parseString) ==
    LET str == TrimSpace(parseString)
    IN IF str = <<"-">>
       THEN [val |-> Zero, clamp |-> "none", err |-> "nil"]
       ELSE StrconvParseUint(RemoveCommas(parseString))

\* the decimal digits of 2^63 - 1 and of 2^63
MaxInt64Digits ==
    <<"9", "2", "2", "3", "3", "7", "2", "0", "3", "6",
      "8", "5", "4", "7", "7", "5", "8", "0", "7">>

MinInt64Digits ==
    <<"9", "2", "2", "3", "3", "7", "2", "0", "3", "6",
      "8", "5", "4", "7", "7", "5", "8", "0", "8">>

\* the digit text denotes a value above the limit (a digit text of 19
\* digits)
OverflowsInt64(s, limit) ==
    LET d == StripZeros(s)
    IN Len(d) > 19 \/ (Len(d) = 19 /\ DigitsLess(limit, d))

\* strconv.ParseInt(s, 10, 64): an optional sign, then ParseUint on the
\* rest, then the range of int64
StrconvParseInt(s) ==
    IF s = <<>>
    THEN [val |-> Zero, clamp |-> "none", err |-> "invalid syntax"]
    ELSE LET neg == Head(s) = "-"
             body == IF Head(s) \in {"+", "-"} THEN Tail(s) ELSE s
             un == StrconvParseUint(body)
         IN IF un.err = "invalid syntax"
            THEN [val |-> Zero, clamp |-> "none", err |-> "invalid syntax"]
            ELSE IF ~neg /\ OverflowsInt64(body, MaxInt64Digits)
            THEN [val |-> Zero, clamp |-> "max", err |-> "value out of range"]
            ELSE IF neg /\ OverflowsInt64(body, MinInt64Digits)
            THEN [val |-> Zero, clamp |-> "min", err |-> "value out of range"]
            ELSE [val |-> IF neg /\ un.val # Zero THEN <<"-">> \o un.val
                          ELSE un.val,
                  clamp |-> "none", err |-> "nil"]

\* util.go ParseInt: as ParseUInt, with strconv.ParseInt
ParseInt(parseString) ==
    LET str == TrimSpace(parseString)
    IN IF str = <<"-">>
       THEN [val |-> Zero, clamp |-> "none", err |-> "nil"]
       ELSE StrconvParseInt(RemoveCommas(parseString))

RECURSIVE ToDigits(_)
\* the decimal rendering of n >= 0
ToDigits(n) ==
    IF n < 10 THEN <<Digits[n + 1]>>
    ELSE ToDigits(n \div 10) \o <<Digits[(n % 10) + 1]>>

(***************************************************************************)
(* net/url as util.go uses it: url.Parse and URL.ResolveReference.  A      *)
(* text is the sequence of its characters.  The texts hold no control      *)
(* character and no '[' (IP literal), so these branches of the library     *)
(* are not taken.  Path is kept as written (escaped).                      *)
(***************************************************************************)
Lower == <<"a", "b", "c", "d", "e", "f", "g", "h", "i", "j", "k", "l", "m",
           "n", "o", "p", "q", "r", "s", "t", "u", "v", "w", "x", "y", "z">>

Upper == <<"A", "B", "C", "D", "E", "F", "G", "H", "I", "J", "K", "L", "M",
           "N", "O", "P", "Q", "R", "S", "T", "U", "V", "W", "X", "Y", "Z">>

IsLetter(c) == \E i \in 1..26 : c = Lower[i] \/ c = Upper[i]

ToLowerChar(c) ==
    IF \E i \in 1..26 : c = Upper[i]
    THEN Lower[CHOOSE i \in 1..26 : c = Upper[i]]
    ELSE c

ToLower(s) == [i \in 1..Len(s) |-> ToLowerChar(s[i])]

IsHex(c) ==
    IsDigit(c) \/ c \in {"a", "b", "c", "d", "e", "f",
                         "A", "B", "C", "D", "E", "F"}

\* strings.Index(s, c) + 1 for a character c: 0 when c is not in s
Index(s, c) ==
    IF \E i \in 1..Len(s) : s[i] = c
    THEN CHOOSE i \in 1..Len(s) : s[i] = c /\ \A j \in 1..(i - 1) : s[j] # c
    ELSE 0

\* strings.LastIndex(s, c) + 1
LastIndex(s, c) ==
    IF \E i \in 1..Len(s) : s[i] = c
    THEN CHOOSE i \in 1..Len(s) :
             s[i] = c /\ \A j \in (i + 1)..Len(s) : s[j] # c
    ELSE 0

HasPrefix(s, prefix) ==
    Len(s) >= Len(prefix) /\ SubSeq(s, 1, Len(prefix)) = prefix

\* s[i:] of Go for the 1-based position i
From(s, i) == SubSeq(s, i, Len(s))

\* the least element of a set of positions or step numbers
Least(steps) == CHOOSE i \in steps : \A j \in steps : i <= j

\* the position at which a scan or a parser stops: the first of fail
\* (0: none) and of the positions others; 0 when there is none
FirstStop(fail, others) ==
    IF fail = 0
    THEN IF others = {} THEN 0 ELSE Least(others)
    ELSE Least(others \cup {fail})

\* the nil *url.URL
NilURL == [nil |-> TRUE]

\* the zero url.URL; User is <<>> for nil and <<userinfo>> otherwise
EmptyURL == [Scheme |-> <<>>, Opaque |-> <<>>, User |-> <<>>, Host |-> <<>>,
             Path |-> <<>>, ForceQuery |-> FALSE, RawQuery |-> <<>>,
             Fragment |-> <<>>]

\* getscheme that stopped at position i of rawurl, the first character
\* that cannot be part of a scheme (0: there is none)
SchemeUpTo(rawurl, i) ==
    IF i = 0 \/ rawurl[i] # ":"
    THEN [scheme |-> <<>>, path |-> rawurl, err |-> "nil"]
    ELSE IF i = 1
    THEN [scheme |-> <<>>, path |-> <<>>, err |-> "missing protocol scheme"]
    ELSE [scheme |-> SubSeq(rawurl, 1, i - 1), path |-> From(rawurl, i + 1),
          err |-> "nil"]

\* getscheme: the scheme before the first ":" when the text starts with a
\* letter followed by letters, digits, "+", "-" and "."
getscheme(rawurl) ==
    SchemeUpTo(rawurl,
               FirstStop(0, {i \in 1..Len(rawurl) :
                   ~(\/ IsLetter(rawurl[i])
                     \/ i > 1 /\ (\/ IsDigit(rawurl[i])
                                  \/ rawurl[i] \in {"+", "-", "."}))}))

\* a "%" of s is followed by two hexadecimal digits
EscapesOK(s) ==
    \A i \in 1..Len(s) :
        s[i] = "%" => i + 2 <= Len(s) /\ IsHex(s[i + 1]) /\ IsHex(s[i + 2])

\* validOptionalPort: empty, or ":" and digits
validOptionalPort(port) ==
    \/ port = <<>>
    \/ /\ port[1] = ":"
       /\ \A i \in 2..Len(port) : IsDigit(port[i])

\* the characters a host may hold unescaped (shouldEscape, encodeHost)
HostChar(c) ==
    \/ IsLetter(c)
    \/ IsDigit(c)
    \/ c \in {"-", "_", ".", "~", "!", "$", "&", "'", "(", ")", "*", "+",
              ",", ";", "=", ":", "<", ">", "\""}

\* parseHost for a host without IP literal: the port, then unescape; an
\* escape of a host names a byte from 0x80 on, or is "%25"
parseHost(host) ==
    LET colon == LastIndex(host, ":")
        escOK(i) ==
            /\ i + 2 <= Len(host)
            /\ IsHex(host[i + 1])
            /\ IsHex(host[i + 2])
            /\ \/ host[i + 1] \in {"8", "9"}
               \/ ~IsDigit(host[i + 1])
               \/ SubSeq(host, i, i + 2) = <<"%", "2", "5">>
        escaped(i) ==
            \/ i > 1 /\ host[i - 1] = "%"
            \/ i > 2 /\ host[i - 2] = "%"
    IN IF colon # 0 /\ ~validOptionalPort(From(host, colon))
       THEN "invalid port after host"
       ELSE IF \E i \in 1..Len(host) : host[i] = "%" /\ ~escOK(i)
       THEN "invalid URL escape"
       ELSE IF \E i \in 1..Len(host) :
                  host[i] # "%" /\ ~escaped(i) /\ ~HostChar(host[i])
       THEN "invalid character in host name"
       ELSE "nil"

\* url.Parse returns the error e
ParseFailed(e) == [url |-> NilURL, err |-> e]

\* validUserinfo: the characters a userinfo may hold
ValidUserinfo(s) ==
    \A i \in 1..Len(s) :
        \/ IsLetter(s[i])
        \/ IsDigit(s[i])
        \/ s[i] \in {"-", ".", "_", ":", "~", "!", "$", "&", "'", "(", ")",
                     "*", "+", ",", ";", "=", "%", "@"}

\* parseAuthority after the authority was cut at its last "@": user is
\* <<>> when there is none, <<userinfo>> otherwise
ParseUserHost(u, user, host, path) ==
    IF parseHost(host) # "nil" THEN ParseFailed(parseHost(host))
    ELSE IF user # <<>> /\ ~ValidUserinfo(user[1])
    THEN ParseFailed("invalid userinfo")
    ELSE IF user # <<>> /\ ~EscapesOK(user[1])
    THEN ParseFailed("invalid URL escape")
    ELSE IF ~EscapesOK(path) \/ ~EscapesOK(u.Fragment)
    THEN ParseFailed("invalid URL escape")
    ELSE [url |-> [u EXCEPT !.User = user, !.Host = host, !.Path = path],
          err |-> "nil"]

\* parse, the hierarchical part: authority is the text between "//" and
\* the next "/" when net says that there is one, path the rest
ParseAuthority(u, net, authority, path) ==
    IF net
    THEN ParseUserHost(u,
                       IF LastIndex(authority, "@") = 0 THEN <<>>
                       ELSE <<SubSeq(authority, 1,
                                     LastIndex(authority, "@") - 1)>>,
                       From(authority, LastIndex(authority, "@") + 1),
                       path)
    ELSE IF ~EscapesOK(path) \/ ~EscapesOK(u.Fragment)
    THEN ParseFailed("invalid URL escape")
    ELSE [url |-> [u EXCEPT !.Path = path], err |-> "nil"]

\* parse, a text "//" after: the authority ends at position cut of after
\* (0: at its end)
ParseNetPath(u, after, cut) ==
    IF cut = 0 THEN ParseAuthority(u, TRUE, after, <<>>)
    ELSE ParseAuthority(u, TRUE, SubSeq(after, 1, cut - 1), From(after, cut))

\* parse, after the scheme and the query were cut off: rest is left
ParseRest(u, rest) ==
    IF ~HasPrefix(rest, <<"/">>) /\ u.Scheme # <<>>
    THEN IF ~EscapesOK(u.Fragment) THEN ParseFailed("invalid URL escape")
         ELSE [url |-> [u EXCEPT !.Opaque = rest], err |-> "nil"]
    ELSE IF /\ ~HasPrefix(rest, <<"/">>)
            /\ Index(rest, ":") # 0
            /\ (Index(rest, "/") = 0 \/ Index(rest, ":") < Index(rest, "/"))
    THEN ParseFailed("first path segment in URL cannot contain colon")
    ELSE IF /\ HasPrefix(rest, <<"/", "/">>)
            /\ (u.Scheme # <<>> \/ ~HasPrefix(rest, <<"/", "/", "/">>))
    THEN ParseNetPath(u, From(rest, 3), Index(From(rest, 3), "/"))
    ELSE ParseAuthority(u, FALSE, <<>>, rest)

\* parse, after getscheme: the query is cut off at the first "?" of rest
\* (a lone "?" at the end sets ForceQuery)
ParseQuery(u, rest) ==
    IF rest # <<>> /\ Index(rest, "?") = Len(rest)
    THEN ParseRest([u EXCEPT !.ForceQuery = TRUE],
                   SubSeq(rest, 1, Len(rest) - 1))
    ELSE IF Index(rest, "?") = 0 THEN ParseRest(u, rest)
    ELSE ParseRest([u EXCEPT !.RawQuery = From(rest, Index(rest, "?") + 1)],
                   SubSeq(rest, 1, Index(rest, "?") - 1))

\* parse after getscheme returned gs0 on the text u before the fragment
ParseScheme(u, frag, gs0) ==
    IF gs0.err # "nil" THEN ParseFailed(gs0.err)
    ELSE IF u = <<"*">> /\ frag = <<>>
    THEN [url |-> [EmptyURL EXCEPT !.Path = <<"*">>], err |-> "nil"]
    ELSE ParseQuery([EmptyURL EXCEPT !.Scheme = ToLower(gs0.scheme),
                                     !.Fragment = frag],
                    gs0.path)

\* url.Parse of a text whose first "#" is at position hash (0: none)
ParseFragment(rawurl, hash) ==
    IF hash = 0 THEN ParseScheme(rawurl, <<>>, getscheme(rawurl))
    ELSE ParseScheme(SubSeq(rawurl, 1, hash - 1), From(rawurl, hash + 1),
                     getscheme(SubSeq(rawurl, 1, hash - 1)))

\* url.Parse(rawurl): [url, err]; the URL is nil on an error
UrlParse(rawurl) == ParseFragment(rawurl, Index(rawurl, "#"))

\* strings.Split(s, "/")
RECURSIVE SplitSlash(_)
SplitSlash(s) ==
    LET i == Index(s, "/")
    IN IF i = 0 THEN <<s>>
       ELSE <<SubSeq(s, 1, i - 1)>> \o SplitSlash(From(s, i + 1))

\* the loop of resolvePath over the elements left; dst is the list of the
\* elements written so far
RECURSIVE RemoveDots(_, _)
RemoveDots(elems, dst) ==
    IF elems = <<>> THEN dst
    ELSE IF Head(elems) = <<".">> THEN RemoveDots(Tail(elems), dst)
    ELSE IF Head(elems) = <<".", ".">>
    THEN RemoveDots(Tail(elems),
                    IF dst = <<>> THEN <<>>
                    ELSE SubSeq(dst, 1, Len(dst) - 1))
    ELSE RemoveDots(Tail(elems), Append(dst, Head(elems)))

RECURSIVE JoinSlash(_)
JoinSlash(elems) ==
    IF elems = <<>> THEN <<>>
    ELSE IF Len(elems) = 1 THEN elems[1]
    ELSE elems[1] \o <<"/">> \o JoinSlash(Tail(elems))

\* the end of resolvePath: a leading "/" was written, two are not wanted
DropDoubleSlash(r) == IF Len(r) > 1 /\ r[2] = "/" THEN Tail(r) ELSE r

\* resolvePath on the path full, split in elems
ResolvedPath(full, elems) ==
    IF full = <<>> THEN <<>>
    ELSE DropDoubleSlash(
             <<"/">> \o JoinSlash(RemoveDots(elems, <<>>))
             \o (IF elems[Len(elems)] \in {<<".">>, <<".", ".">>}
                 THEN <<"/">> ELSE <<>>))

\* a mutant of resolvePath: the reference is appended to the directory of
\* the base even when it begins with "/"
resolvePathAppended(base, ref) ==
    IF ref = <<>> THEN ResolvedPath(base, SplitSlash(base))
    ELSE ResolvedPath(SubSeq(base, 1, LastIndex(base, "/")) \o ref,
                      SplitSlash(SubSeq(base, 1, LastIndex(base, "/")) \o ref))

\* resolvePath(base, ref)
resolvePath(base, ref) ==
    IF ref = <<>> THEN ResolvedPath(base, SplitSlash(base))
    ELSE IF ref[1] # "/"
    THEN ResolvedPath(SubSeq(base, 1, LastIndex(base, "/")) \o ref,
                      SplitSlash(SubSeq(base, 1, LastIndex(base, "/")) \o ref))
    ELSE ResolvedPath(ref, SplitSlash(ref))

\* ResolveReference, a reference without scheme, host and opaque part;
\* url is the copy of ref being filled
ResolveRelative(u, ref, url) ==
    IF ref.Path = <<>> /\ u.Opaque # <<>>
    THEN [url EXCEPT !.Opaque = u.Opaque, !.User = <<>>, !.Host = <<>>,
                     !.Path = <<>>]
    ELSE [url EXCEPT !.Host = u.Host, !.User = u.User,
                     !.Path = resolvePath(u.Path, ref.Path)]

\* a mutant of ResolveReference: a reference with a scheme or a host is
\* merged with the base like any other
ResolveCopyMerged(u, ref, url) == ResolveRelative(u, ref, url)

\* ResolveReference on the copy url of ref that has its scheme
ResolveCopy(u, ref, url) ==
    IF ref.Scheme # <<>> \/ ref.Host # <<>> \/ ref.User # <<>>
    THEN [url EXCEPT !.Path = resolvePath(ref.Path, <<>>)]
    ELSE IF ref.Opaque # <<>>
    THEN [url EXCEPT !.User = <<>>, !.Host = <<>>, !.Path = <<>>]
    ELSE IF ref.Path = <<>> /\ ~ref.ForceQuery /\ ref.RawQuery = <<>>
    THEN ResolveRelative(u, ref,
             [url EXCEPT !.RawQuery = u.RawQuery,
                         !.Fragment = IF ref.Fragment = <<>>
                                      THEN u.Fragment ELSE @])
    ELSE ResolveRelative(u, ref, url)

\* u.ResolveReference(ref)
ResolveReference(u, ref) ==
    ResolveCopy(u, ref,
                [ref EXCEPT !.Scheme = IF ref.Scheme = <<>> THEN u.Scheme
                                       ELSE ref.Scheme])

\* the scheme util.go gives a URL that has none
HttpScheme == <<"h", "t", "t", "p", "s">>

\* a mutant of ParseURL: the scheme is left as parsed
ParseURLAsParsed(urlString) == UrlParse(urlString)

\* ParseURL after url.Parse returned r
DefaultScheme(r) ==
    IF r.err # "nil" THEN r
    ELSE IF r.url.Scheme = <<>>
    THEN [url |-> [r.url EXCEPT !.Scheme = HttpScheme], err |-> "nil"]
    ELSE r

\* util.go ParseURL
ParseURL(urlString) == DefaultScheme(UrlParse(urlString))

(***************************************************************************)
(* DeriveCurseForgeURLs, with path.Join and path.Clean of package path.    *)
(***************************************************************************)
RECURSIVE CleanElems(_, _, _)
\* the loop of path.Clean over the elements left of a path that is rooted
\* or not; dst is the list of the elements written so far
CleanElems(elems, dst, rooted) ==
    IF elems = <<>> THEN dst
    ELSE IF Head(elems) \in {<<>>, <<".">>}
    THEN CleanElems(Tail(elems), dst, rooted)
    ELSE IF Head(elems) # <<".", ".">>
    THEN CleanElems(Tail(elems), Append(dst, Head(elems)), rooted)
    ELSE IF dst # <<>> /\ dst[Len(dst)] # <<".", ".">>
    THEN CleanElems(Tail(elems), SubSeq(dst, 1, Len(dst) - 1), rooted)
    ELSE IF rooted THEN CleanElems(Tail(elems), dst, rooted)
    ELSE CleanElems(Tail(elems), Append(dst, <<".", ".">>), rooted)

\* the end of path.Clean: the elements kept, joined
CleanJoined(rooted, elems) ==
    IF rooted THEN <<"/">> \o JoinSlash(elems)
    ELSE IF elems = <<>> THEN <<".">>
    ELSE JoinSlash(elems)

\* path.Clean(p)
Clean(p) ==
    IF p = <<>> THEN <<".">>
    ELSE CleanJoined(p[1] = "/", CleanElems(SplitSlash(p), <<>>, p[1] = "/"))

\* a mutant of path.Join: the elements are joined and not cleaned
PathJoinUncleaned(a, b) ==
    IF a = <<>> THEN b
    ELSE IF b = <<>> THEN a
    ELSE a \o <<"/">> \o b

\* path.Join(a, b): empty elements are ignored, the rest is joined with
\* "/" and cleaned
PathJoin(a, b) ==
    IF a = <<>> /\ b = <<>> THEN <<>>
    ELSE IF a = <<>> THEN Clean(b)
    ELSE IF b = <<>> THEN Clean(a)
    ELSE Clean(a \o <<"/">> \o b)

\* relatives: the sub-folder of a section
Relatives(section) ==
    IF section = CFSectionFiles THEN <<"f", "i", "l", "e", "s">>
    ELSE <<"i", "m", "a", "g", "e", "s">>

\* the url.URL literal built for the sub-folder rel
DerivedURL(projectURL, rel) ==
    [EmptyURL EXCEPT !.Path = PathJoin(projectURL.Path, rel),
                     !.Host = projectURL.Host,
                     !.Scheme = projectURL.Scheme,
                     !.User = projectURL.User,
                     !.RawQuery = projectURL.RawQuery]

\* DeriveCurseForgeURLs(projectURL) for a projectURL that is not nil: the
\* map, the error, and the URL projectURL points to afterwards
DeriveCurseForgeURLs(projectURL) ==
    [urls |-> [section \in DerivedSections |->
                  IF section = CFSectionOverview THEN projectURL
                  ELSE DerivedURL(projectURL, Relatives(section))],
     err |-> "nil",
     projectURL |-> projectURL]

(***************************************************************************)
(* The state.                                                              *)
(***************************************************************************)
VARIABLES
    pc,         \* where the caller's call stands: idle, loop (FetchCurseForge
                \* is about to fetch a section), files (parseCFFiles is about
                \* to fetch page `page`), returned, panicked
    entry,      \* the function the caller called: "Fetch" or "Parse"
    sections,   \* argument sections of FetchCurseForge
    options,    \* argument options
    todo,       \* FetchCurseForge: the selected sections not yet iterated
    doHeader,   \* FetchCurseForge: local doHeader
    results,    \* the CurseForge record the parsers fill
    ret,        \* what the call returned: [results, err]
    page,       \* parseCFFiles: local page
    pageCount,  \* parseCFFiles: local pageCount
    streams,    \* the response bodies handed out so far, with their state
    fetchLog,   \* the FetchPage calls made by the package, in order; hdr
                \* says that the response was parsed with parseHeader
    served,     \* per files page parsed, the number of rows it held
    firstLabels, \* the pagination labels of the first files page
    paths,      \* pathCache.paths: selector text -> compiled path
    compiles,   \* selector text -> xmlpath.MustCompile calls since the
                \* last Clear
    seeded,     \* selector text -> what AddToCache last stored, since the
                \* last Clear
    last,       \* the last cache operation and what it returned
    gs          \* goroutines using pathCache at once

vars == <<pc, entry, sections, options, todo, doHeader, results, ret, page,
          pageCount, streams, fetchLog, served, firstLabels, paths, compiles,
          seeded, last, gs>>

aggVars == <<pc, entry, sections, options, todo, doHeader, results, ret, page,
             pageCount, streams, fetchLog, served, firstLabels>>

cacheVars == <<paths, compiles, seeded, last>>

(***************************************************************************)
(* Errors are the chain of message parts, outermost first; nil is <<>>.    *)
(***************************************************************************)
NilErr == <<>>

WrapErr(msg, e) == <<msg>> \o e

(***************************************************************************)
(* util.go: XpathCache.  A compiled path is the object xmlpath compiled    *)
(* from a selector text; the compiler rejects the texts of Malformed.      *)
(***************************************************************************)
Malformed == {"//a["}

NilPath == [src |-> "<nil>"]

\* xmlpath.MustCompile on a text the compiler accepts
MustCompile(path) == [src |-> path]

EmptyMap == [s \in {} |-> NilPath]

\* p, ok := cache.paths[path]
MapLookup(m, path) ==
    [p |-> IF path \in DOMAIN m THEN m[path] ELSE NilPath,
     ok |-> path \in DOMAIN m]

\* a mutant of AddToCache: the map holds the new entry alone
AddToCacheAlone(m, uncompiled, compiled) == [s \in {uncompiled} |-> compiled]

\* a mutant of AddToCache: an entry already present is kept
AddToCacheKeepFirst(m, uncompiled, compiled) ==
    [s \in (DOMAIN m) \cup {uncompiled} |->
        IF s \in DOMAIN m THEN m[s] ELSE compiled]

\* cache.paths[uncompiled] = compiled
AddToCache(m, uncompiled, compiled) ==
    [s \in (DOMAIN m) \cup {uncompiled} |->
        IF s = uncompiled THEN compiled ELSE m[s]]

\* a mutant of GetCompiledPath: the path is compiled on every call
GetCompiledPathNoLookup(m, path) ==
    IF path \in Malformed
    THEN [paths |-> m, p |-> NilPath, compiled |-> TRUE, panic |-> TRUE]
    ELSE [paths |-> AddToCache(m, path, MustCompile(path)),
          p |-> MustCompile(path), compiled |-> TRUE, panic |-> FALSE]

\* a mutant of GetCompiledPath: a rejected selector gives a nil path
GetCompiledPathNoPanic(m, path) ==
    LET l == MapLookup(m, path)
    IN IF l.ok
       THEN [paths |-> m, p |-> l.p, compiled |-> FALSE, panic |-> FALSE]
       ELSE IF path \in Malformed
       THEN [paths |-> m, p |-> NilPath, compiled |-> TRUE, panic |-> FALSE]
       ELSE [paths |-> AddToCache(m, path, MustCompile(path)),
             p |-> MustCompile(path), compiled |-> TRUE, panic |-> FALSE]

\* GetCompiledPath: the map afterwards, the path returned, whether the
\* compiler was invoked and whether it panicked (MustCompile panics on a
\* compile error, and then nothing is stored)
GetCompiledPath(m, path) ==
    LET l == MapLookup(m, path)
    IN IF l.ok
       THEN [paths |-> m, p |-> l.p, compiled |-> FALSE, panic |-> FALSE]
       ELSE IF path \in Malformed
       THEN [paths |-> m, p |-> NilPath, compiled |-> TRUE, panic |-> TRUE]
       ELSE [paths |-> AddToCache(m, path, MustCompile(path)),
             p |-> MustCompile(path), compiled |-> TRUE, panic |-> FALSE]

\* cache.paths = make(map[string]*xmlpath.Path)
Clear(m) == EmptyMap

\* the compiler calls counted per selector text
Count(c, s) == IF s \in DOMAIN c THEN c[s] ELSE 0

Counted(c, s) ==
    [t \in (DOMAIN c) \cup {s} |-> IF t = s THEN Count(c, s) + 1 ELSE c[t]]

\* the cache (map and compiler-call counts) after the accessors resolved
\* the selectors of sels through GetCompiledPath; sels holds texts the
\* compiler accepts, and resolving one leaves the entries of the others alone
UsePaths(c, sels) ==
    LET used == {sels[i] : i \in DOMAIN sels}
        keys == (DOMAIN c.paths) \cup used
        hit == {s \in used : GetCompiledPath(c.paths, s).compiled}
    IN [paths |-> [s \in keys |->
                      IF s \in used THEN GetCompiledPath(c.paths, s).paths[s]
                      ELSE c.paths[s]],
        compiles |-> [s \in (DOMAIN c.compiles) \cup hit |->
                         IF s \in hit THEN Count(c.compiles, s) + 1
                         ELSE c.compiles[s]]]

(***************************************************************************)
(* curseforge.go: the page parsers.  A page is what the parsers read from  *)
(* it: whether the markup parses, which required value is missing, how     *)
(* many rows it lists, its pagination labels.  A record of Downloads is    *)
(* named by the page and the row it was extracted from.                    *)
(***************************************************************************)
\* parseCFHeader: the values it reads, in the order of the code
HeaderSteps == <<
    [name |-> "navbar", sel |-> "//nav[@class='e-header-nav']", req |-> TRUE],
    [name |-> "Overview URL", sel |-> "//li/a[contains(text(), 'Overview')]/@href", req |-> TRUE],
    [name |-> "Files URL", sel |-> "//li/a[contains(text(), 'Files')]/@href", req |-> TRUE],
    [name |-> "Images URL", sel |-> "//li/a[contains(text(), 'Images')]/@href", req |-> TRUE],
    [name |-> "Issues URL", sel |-> "//li/a[contains(text(), 'Issues')]/@href", req |-> TRUE],
    [name |-> "Wiki URL", sel |-> "//li/a[contains(text(), 'Wiki')]/@href", req |-> FALSE],
    [name |-> "Source URL", sel |-> "//li/a[contains(text(), 'Source')]/@href", req |-> FALSE],
    [name |-> "Dependencies URL", sel |-> "//li/a[contains(text(), 'Dependencies')]/@href", req |-> TRUE],
    [name |-> "Dependents URL", sel |-> "//li/a[contains(text(), 'Dependents')]/@href", req |-> TRUE],
    [name |-> "Game", sel |-> "//*[@id='site-main']/header//h1", req |-> TRUE],
    [name |-> "Game URL", sel |-> "//*[@id='site-main']/header//a/@href", req |-> TRUE],
    [name |-> "atf", sel |-> "//*[@id='site-main']/section[@class='atf']", req |-> TRUE],
    [name |-> "Title", sel |-> "//h1/a/span", req |-> TRUE],
    [name |-> "Project URL", sel |-> "//h1/a/@href", req |-> TRUE],
    [name |-> "RootGameCategory", sel |-> "//h2/a", req |-> TRUE],
    [name |-> "RootGameCategoryURL", sel |-> "//h2/a/@href", req |-> TRUE],
    [name |-> "ImageURL", sel |-> "//div[@class='avatar-wrapper']/a/@href", req |-> TRUE],
    [name |-> "ImageThumbnailURL", sel |-> "//div[@class='avatar-wrapper']/a/img/@src", req |-> TRUE],
    [name |-> "DontationURL", sel |-> "//a[@class='button tip icon-donate icon-paypal']/@href", req |-> FALSE] >>

\* parseCFOverview: the sidebar node and the required sidebar values
OverviewSteps == <<
    [name |-> "sidebar", sel |-> "//*[@id='content']/section/div[@class='e-project-details-secondary']"],
    [name |-> "Created", sel |-> "//ul[@class='cf-details project-details']/li[div[@class='info-label']='Created ']/div[@class='info-data']/abbr/@data-epoch"],
    [name |-> "Updated // Last Released File", sel |-> "//ul[@class='cf-details project-details']/li[div[@class='info-label']='Last Released File ']/div[@class='info-data']/abbr/@data-epoch"],
    [name |-> "TotalDownloads", sel |-> "//ul[@class='cf-details project-details']/li[div[@class='info-label']='Total Downloads ']/div[@class='info-data']"],
    [name |-> "License", sel |-> "//ul[@class='cf-details project-details']/li[div[@class='info-label']='License ']/div[@class='info-data']/a"],
    [name |-> "LicenseURL", sel |-> "//ul[@class='cf-details project-details']/li[div[@class='info-label']='License ']/div[@class='info-data']/a/@href"],
    [name |-> "Categories", sel |-> "//ul[@class='cf-details project-categories']/li"],
    [name |-> "CurseURL", sel |-> "//li[@class='view-on-curse']/a/@href"],
    [name |-> "ReportProjectURL", sel |-> "//li[@class='report-project']/a/@href"],
    [name |-> "Members", sel |-> "//ul[@class='cf-details project-members']/li"] >>

\* the steps of OverviewSteps that return an error when the value is missing
OverviewRequired == {2, 3, 4, 5, 6, 8, 9}

\* parseCFOverview, recent files: the row iterator, then the values of a row
RecentRows == "//div[@class='cf-sidebar-wrapper']//li[@class='file-tag']"

RecentFields == <<
    [name |-> "File/ReleaseType", sel |-> "div[@class='e-project-file-phase-wrapper']/div/@title", req |-> TRUE],
    [name |-> "File/DirectURL", sel |-> "//div[@class='project-file-download-button']/a/@href", req |-> TRUE],
    [name |-> "File/URL", sel |-> "//div[@class='project-file-name-container']/a/@href", req |-> TRUE],
    [name |-> "File/Name", sel |-> "//div[@class='project-file-name-container']/a/text()", req |-> TRUE],
    [name |-> "File/Date", sel |-> "//abbr/@data-epoch", req |-> TRUE] >>

\* parseCFFilesSinglePage: the row iterator, then the values of a row
FileRows == "//tr[@class='project-file-list-item']"

FileFields == <<
    [name |-> "File/ReleaseType", sel |-> "td[@class='project-file-release-type']/div/@title", req |-> TRUE],
    [name |-> "File/DirectURL", sel |-> "//div[@class='project-file-download-button']/a/@href", req |-> TRUE],
    [name |-> "File/URL", sel |-> "//div[@class='project-file-name-container']/a/@href", req |-> TRUE],
    [name |-> "File/Name", sel |-> "//div[@class='project-file-name-container']/a/text()", req |-> TRUE],
    [name |-> "File/HasAdditionalFiles", sel |-> "//div[@class='project-file-name-container']/a[@class='more-files-tag']", req |-> FALSE],
    [name |-> "File/SizeInfo", sel |-> "//td[@class='project-file-size']/text()", req |-> TRUE],
    [name |-> "File/Date", sel |-> "//abbr/@data-epoch", req |-> TRUE],
    [name |-> "File/GameVersion", sel |-> "//span[@class='version-label']/text()", req |-> TRUE],
    [name |-> "File/Downloads", sel |-> "//td[@class='project-file-downloads']/text()", req |-> TRUE] >>

Pagination == "//div[@class='listing-header']//a[@class='b-pagination-item']"

Required(steps) == {i \in 1..Len(steps) : steps[i].req}

\* the selectors of the first n of steps, in order
Sels(steps, n) == [i \in 1..n |-> steps[i].sel]

\* the steps that look up a node or an iterator, and assign no field
HeaderNodes == {"navbar", "atf"}

OverviewNodes == {"sidebar", "Categories", "Members"}

\* the values read with UnixTimestamp: when one is missing, the field is
\* assigned the Unix epoch before the error is returned
OverviewTimes == {"Created", "Updated // Last Released File"}

\* the fields that the steps before step h assigned
FieldsBefore(steps, nodes, h) ==
    Cardinality({i \in 1..(h - 1) : steps[i].name \notin nodes})

\* the optional values of steps
Optional(steps) == {steps[i].name : i \in {j \in DOMAIN steps : ~steps[j].req}}

\* new(CurseForge): header and overview count the fields assigned from the
\* page, nils names the optional URL fields left nil
NewCurseForge == [header |-> 0, overview |-> 0, nils |-> {}, Downloads |-> <<>>]

File(from, p, row) == [from |-> from, page |-> p, row |-> row]

\* a mutant of AppendFile: the record is put in front
AppendFileInFront(downloads, file) == <<file>> \o downloads

\* results.Downloads = append(results.Downloads, file)
AppendFile(downloads, file) == Append(downloads, file)

RECURSIVE AppendRows(_, _, _, _, _)
\* the row loop: rows i..n of page p appended one after the other
AppendRows(downloads, from, p, i, n) ==
    IF i > n THEN downloads
    ELSE AppendRows(AppendFile(downloads, File(from, p, i)), from, p, i + 1, n)

\* the rows of a listing that are appended: all of them, or those before
\* the row list.fail, whose value list.field is missing
GoodRows(list) == IF list.fail = 0 THEN list.rows ELSE list.fail - 1

\* a mutant of ListErr: a row that misses a required value ends the row
\* loop without an error
ListErrIgnored(fields, list) == NilErr

\* the error the row loop returns
ListErr(fields, list) ==
    IF list.fail = 0 THEN NilErr
    ELSE <<"error resolving value", fields[list.field].name>>

ListSels(rowsSel, fields, list) ==
    <<rowsSel>>
    \o (IF GoodRows(list) > 0 THEN Sels(fields, Len(fields)) ELSE <<>>)
    \o (IF list.fail > 0 THEN Sels(fields, list.field) ELSE <<>>)

\* parseCFFilesSinglePage on page p
parseCFFilesSinglePage(res, p, list) ==
    [results |-> [res EXCEPT !.Downloads =
                     AppendRows(@, "files", p, 1, GoodRows(list))],
     err |-> ListErr(FileFields, list),
     sels |-> ListSels(FileRows, FileFields, list)]

\* a mutant of OptionalErr: the error of an optional lookup is kept
OptionalErrKept(e) == e

\* the error of the lookup of an optional link is dropped (the returns are
\* commented out in parseCFHeader, the field is set to nil in ParseCurse)
OptionalErr(e) == NilErr

\* the error parseCFHeader returns when it stops at step stop
HeaderErr(stop) ==
    IF stop = 0 THEN NilErr
    ELSE IF HeaderSteps[stop].name = "navbar"
    THEN <<"did not find navbar">>
    ELSE IF HeaderSteps[stop].name = "atf"
    THEN <<"did not find atf section">>
    ELSE <<"error resolving value", HeaderSteps[stop].name>>

\* parseCFHeader that ran the steps before step done, the optional links
\* nils of them being missing, and returned err
HeaderRead(res, done, nils, err) ==
    [results |-> [res EXCEPT
                     !.header = FieldsBefore(HeaderSteps, HeaderNodes, done)
                                - Cardinality(nils),
                     !.nils = nils],
     err |-> err,
     sels |-> Sels(HeaderSteps, IF done > Len(HeaderSteps)
                                THEN Len(HeaderSteps) ELSE done)]

\* parseCFHeader that stops at step stop (0: at none)
HeaderUpTo(res, stop, absent) ==
    IF stop = 0
    THEN HeaderRead(res, Len(HeaderSteps) + 1, absent, NilErr)
    ELSE HeaderRead(res, stop,
                    absent \cap {HeaderSteps[i].name : i \in 1..(stop - 1)},
                    HeaderErr(stop))

\* parseCFHeader on a page whose first missing required value is step h
\* (0: none is missing) and whose optional links absent are missing
parseCFHeader(res, h, absent) ==
    HeaderUpTo(res,
               FirstStop(h, {i \in DOMAIN HeaderSteps :
                                /\ HeaderSteps[i].name \in absent
                                /\ ~HeaderSteps[i].req
                                /\ OptionalErr(<<"node not found">>) # NilErr
                                /\ (h = 0 \/ i < h)}),
               absent \cap Optional(HeaderSteps))

\* parseCFOverview; without the sidebar node it calls err.Error() on a nil
\* error, which panics
parseCFOverview(res, o, in) ==
    IF ~in.sidebar
    THEN [results |-> res, err |-> NilErr, panic |-> TRUE,
          sels |-> Sels(OverviewSteps, 1)]
    ELSE IF in.ofail # 0
    THEN [results |-> [res EXCEPT !.overview =
                          FieldsBefore(OverviewSteps, OverviewNodes, in.ofail)
                          + (IF OverviewSteps[in.ofail].name \in OverviewTimes
                             THEN 1 ELSE 0)],
          err |-> <<"error resolving value", OverviewSteps[in.ofail].name>>,
          panic |-> FALSE,
          sels |-> Sels(OverviewSteps, in.ofail)]
    ELSE IF ~OptionsHas(o, CFOptionOverviewRecentFiles)
    THEN [results |-> [res EXCEPT !.overview =
                          FieldsBefore(OverviewSteps, OverviewNodes,
                                       Len(OverviewSteps) + 1)],
          err |-> NilErr, panic |-> FALSE,
          sels |-> Sels(OverviewSteps, Len(OverviewSteps))]
    ELSE [results |-> [res EXCEPT !.overview =
                          FieldsBefore(OverviewSteps, OverviewNodes,
                                       Len(OverviewSteps) + 1),
                                  !.Downloads = AppendRows(@, "overview", 1,
                                                    1, GoodRows(in.list))],
          err |-> ListErr(RecentFields, in.list),
          panic |-> FALSE,
          sels |-> Sels(OverviewSteps, Len(OverviewSteps))
                   \o ListSels(RecentRows, RecentFields, in.list)]

\* a mutant of ScanPagination: a second page is always found
ScanPaginationTwoPages(labels, count) == [pageCount |-> 2, err |-> NilErr]

RECURSIVE ScanPagination(_, _)
\* the loop over the pagination items: the highest label, or the error of
\* the first label ParseUInt rejects
ScanPagination(labels, count) ==
    IF labels = <<>> THEN [pageCount |-> count, err |-> NilErr]
    ELSE LET r == ParseUInt(Head(labels))
         IN IF r.err # "nil"
            THEN [pageCount |-> count,
                  err |-> <<"error parsing page number", r.err>>]
            ELSE ScanPagination(Tail(labels),
                                IF DigitsValue(r.val) > count
                                THEN DigitsValue(r.val) ELSE count)

\* a mutant of StopsAfterFirstPage: the option is ignored
StopsAfterFirstPageNever(o) == FALSE

\* if options.Has(CFOptionFilesNoPagination) { return nil }
StopsAfterFirstPage(o) == OptionsHas(o, CFOptionFilesNoPagination)

\* for page = 2; ...
FirstLoopPage == 2

\* parseCFFiles up to the first test of the page loop: more says that the
\* loop goes on to fetch page FirstLoopPage
parseCFFiles(res, o, in) ==
    LET first == parseCFFilesSinglePage(res, 1, in.list)
        scan == ScanPagination(in.labels, 0)
    IN IF first.err # NilErr
       THEN [results |-> first.results,
             err |-> WrapErr("error parsing first files page", first.err),
             more |-> FALSE, pageCount |-> 0, sels |-> first.sels]
       ELSE IF StopsAfterFirstPage(o)
       THEN [results |-> first.results, err |-> NilErr,
             more |-> FALSE, pageCount |-> 0, sels |-> first.sels]
       ELSE [results |-> first.results, err |-> scan.err,
             more |-> scan.err = NilErr /\ FirstLoopPage <= scan.pageCount,
             pageCount |-> scan.pageCount,
             sels |-> first.sels \o <<Pagination>>]

\* what ParseCurseForge returns to FirstPage: the record, the error, whether
\* it panicked, whether the page loop of parseCFFiles goes on, pageCount,
\* and the selectors resolved
Parsed(res, e, sels) ==
    [results |-> res, err |-> e, panic |-> FALSE, more |-> FALSE,
     pageCount |-> 0, sels |-> sels]

\* ParseCurseForge after parseCFOverview returned ov
OverviewParsed(hdr, ov) ==
    [Parsed(ov.results,
            IF ov.err = NilErr THEN NilErr
            ELSE WrapErr("error processing CF Overview", ov.err),
            hdr.sels \o ov.sels)
        EXCEPT !.panic = ov.panic]

\* ParseCurseForge after parseCFFiles returned fl
FilesParsed(hdr, fl) ==
    [Parsed(fl.results,
            IF fl.err = NilErr THEN NilErr
            ELSE WrapErr("error processing CF Files", fl.err),
            hdr.sels \o fl.sels)
        EXCEPT !.more = fl.more, !.pageCount = fl.pageCount]

\* ParseCurseForge after the header part returned hdr
HeaderParsed(hdr, section, o, in) ==
    IF hdr.err # NilErr
    THEN Parsed(hdr.results, WrapErr("error processing CF header", hdr.err),
                hdr.sels)
    ELSE IF section = CFSectionOverview
    THEN OverviewParsed(hdr, parseCFOverview(hdr.results, o, in))
    ELSE IF section = CFSectionFiles
    THEN FilesParsed(hdr, parseCFFiles(hdr.results, o, in))
    ELSE Parsed(hdr.results, NilErr, hdr.sels)

\* ParseCurseForge up to its return or to the first fetch of parseCFFiles
ParseCurseForge(res, parseHeader, section, o, in) ==
    IF ~in.html
    THEN Parsed(res, <<"error parsing xml/http", "markup">>, <<>>)
    ELSE IF parseHeader
    THEN HeaderParsed(parseCFHeader(res, in.header, in.absent), section, o, in)
    ELSE HeaderParsed([results |-> res, err |-> NilErr, sels |-> <<>>],
                      section, o, in)

(***************************************************************************)
(* ParseCurse, the parser of the pages of mods.curse.com.                  *)
(***************************************************************************)
\* the lookups of ParseCurse outside its row loops, in order; msg is the
\* error returned when the lookup finds nothing
CurseSteps == <<
    [name |-> "project-overview", sel |-> "//*[@id='project-overview']", msg |-> <<"could not find 'project-overview' in response body">>],
    [name |-> "Title", sel |-> "header/h2", msg |-> <<"error resolving value", "Title">>],
    [name |-> "DontationURL", sel |-> "div[@class='meta-info']/div/a/@href", msg |-> <<>>],
    [name |-> "Authors", sel |-> "div[@class='main-details']/div[@class='main-info']/ul[@class='authors group']/li", msg |-> <<>>],
    [name |-> "Categories", sel |-> "div[@class='main-details']/div[@class='main-info']/a", msg |-> <<>>],
    [name |-> "Likes", sel |-> "div[@class='main-details']/div[@class='main-info']/div[@class='appreciate']/ul/li[@class='grats']/span", msg |-> <<"error resolving value", "Likes">>],
    [name |-> "details-list", sel |-> "div/div/ul[@class='details-list']", msg |-> <<"could not find 'details-list' in response body">>],
    [name |-> "Game", sel |-> "li[@class='game']", msg |-> <<"error resolving value", "Game">>],
    [name |-> "GameURL", sel |-> "li[@class='game']/a/@href", msg |-> <<"error resolving value", "GameURL", "node not found">>],
    [name |-> "Average Downloads", sel |-> "li[@class='average-downloads']", msg |-> <<"error resolving value", "Average Downloads">>],
    [name |-> "Total Downloads", sel |-> "li[@class='downloads']", msg |-> <<"error resolving value", "Total Downloads">>],
    [name |-> "Updated", sel |-> "li[@class='updated' and text()='Updated ']/abbr/@data-epoch", msg |-> <<"error parsing number for", "Updated", "node not found">>],
    [name |-> "Created", sel |-> "li[@class='updated' and text()='Created ']/abbr/@data-epoch", msg |-> <<"error parsing number for", "Created", "node not found">>],
    [name |-> "Favorites", sel |-> "li[@class='favorited']", msg |-> <<"error resolving value", "Favorites">>],
    [name |-> "Curseforge URL", sel |-> "li[@class='curseforge']/a/@href", msg |-> <<"error parsing URL for", "Curseforge URL", "node not found">>],
    [name |-> "License", sel |-> "li[@class='license']", msg |-> <<"error resolving value", "License">>],
    [name |-> "Screenshots", sel |-> "//div[@id='screenshot-gallery']//div[@class='listing-body']/ul/li/a", msg |-> <<>>],
    [name |-> "Downloads", sel |-> "//div[@id='tab-other-downloads']//div[@class='listing-body']/table/tbody/tr", msg |-> <<>>] >>

\* the steps of CurseSteps that return an error when they find nothing
CurseRequired == {1, 2, 6, 7, 8, 9, 10, 11, 12, 13, 14, 15, 16}

\* the step whose missing value is no error: the field is set to nil
CurseOptional == {"DontationURL"}

\* the row iterators: a page without rows runs no turn of their loops
CurseIters == {"Authors", "Categories", "Screenshots", "Downloads"}

\* the texts of which ParseCurse indexes the words (strings.Fields): the
\* first word of Likes, the first and second word of Average Downloads
CurseWords == [i \in {6, 10} |-> IF i = 6 THEN 1 ELSE 2]

\* what ParseCurse returns
CurseParsed(res, e, panic, n) ==
    [results |-> res, err |-> e, panic |-> panic,
     sels |-> Sels(CurseSteps, n)]

\* ParseCurse that stops at step stop (0: at none); short are the steps
\* that find a text with too few words, kept the optional steps whose
\* error is returned
CurseUpTo(in, stop, short, kept) ==
    IF stop = 0
    THEN CurseParsed([fields |-> FieldsBefore(CurseSteps,
                                     {"project-overview", "details-list"}
                                     \cup CurseIters \cup in.absent,
                                     Len(CurseSteps) + 1),
                      nils |-> in.absent \cap CurseOptional],
                     NilErr, FALSE, Len(CurseSteps))
    ELSE IF stop \in short THEN CurseParsed("nil", NilErr, TRUE, stop)
    ELSE IF stop \in kept
    THEN CurseParsed("nil", <<"error resolving value", CurseSteps[stop].name>>,
                     FALSE, stop)
    ELSE CurseParsed("nil", CurseSteps[stop].msg, FALSE, stop)

\* the steps before the failing one among steps
BeforeFail(in, steps) == {i \in steps : in.fail = 0 \/ i < in.fail}

\* the steps of ParseCurse that index a word that is not there
CurseShort(in) ==
    BeforeFail(in, {i \in DOMAIN CurseWords : in.words < CurseWords[i]})

\* the optional steps of ParseCurse whose error is returned
CurseKept(in) ==
    BeforeFail(in, {i \in DOMAIN CurseSteps :
                       /\ CurseSteps[i].name \in in.absent \cap CurseOptional
                       /\ OptionalErr(<<"node not found">>) # NilErr})

\* ParseCurse on the page in: url says whether documentURL parses, html
\* whether the body does, fail is the first required step that finds
\* nothing (0: none), absent the optional values missing, words the number
\* of words of the texts of CurseWords (indexing a word that is not there
\* panics).  The record returned is told by the number of fields assigned
\* from the page and by its URL fields that are nil.
ParseCurse(in) ==
    IF ~in.url THEN CurseParsed("nil", <<"parse", "documentURL">>, FALSE, 0)
    ELSE IF ~in.html
    THEN CurseParsed("nil", <<"error parsing xml/http", "markup">>, FALSE, 0)
    ELSE CurseUpTo(in, FirstStop(in.fail, CurseShort(in) \cup CurseKept(in)),
                   CurseShort(in), CurseKept(in))

(***************************************************************************)
(* The pages the site may serve, as far as the parsers read them.          *)
(***************************************************************************)
NoList == [rows |-> 0, fail |-> 0, field |-> 0]

GoodLists == {[rows |-> n, fail |-> 0, field |-> 0] : n \in 0..MaxRows}

\* the required values of a row probed as missing: the first one the row
\* loop reads and the last one
Probed(fields) ==
    {k \in Required(fields) : \A j \in Required(fields) : k <= j}
    \cup {k \in Required(fields) : \A j \in Required(fields) : k >= j}

\* a listing whose row f misses a required value: the parsers read no row
\* after it
FailingLists(fields) ==
    {[rows |-> f, fail |-> f, field |-> k] :
        f \in 1..MaxRows, k \in Probed(fields)}

\* label texts that are no plain page number
OddLabels == {<<"-">>, <<" ", "2">>, <<"x">>, <<"0", ",", "2">>}

\* the pagination controls of a first files page: none, one label, the
\* highest label first or last, a label that is no plain number
LabelLists ==
    {<<>>}
    \cup {<<ToDigits(i)>> : i \in 1..MaxPageIndex}
    \cup {<<ToDigits(1), ToDigits(MaxPageIndex)>>,
          <<ToDigits(MaxPageIndex), ToDigits(1)>>}
    \cup {<<l>> : l \in OddLabels}
    \cup {<<ToDigits(2), <<"x">> >>}

BasePage == [html |-> TRUE, header |-> 0, absent |-> {}, sidebar |-> TRUE,
             ofail |-> 0, list |-> NoList, labels |-> <<>>]

\* the first pages of a section, told apart as far as ParseCurseForge reads
FirstPages(parseHeader, section, o) ==
    {[BasePage EXCEPT !.html = FALSE]}
    \cup (IF parseHeader
          THEN {[BasePage EXCEPT !.header = h] : h \in Required(HeaderSteps)}
          ELSE {})
    \cup (IF section = CFSectionOverview
          THEN {[BasePage EXCEPT !.sidebar = FALSE]}
               \cup {[BasePage EXCEPT !.ofail = k] : k \in OverviewRequired}
               \cup (IF OptionsHas(o, CFOptionOverviewRecentFiles)
                     THEN {[BasePage EXCEPT !.list = l] :
                              l \in GoodLists \cup FailingLists(RecentFields)}
                     ELSE {BasePage})
          ELSE IF section = CFSectionFiles
          THEN {[BasePage EXCEPT !.list = l] : l \in FailingLists(FileFields)}
               \cup {[BasePage EXCEPT !.list = l, !.labels = ls] :
                        l \in GoodLists, ls \in LabelLists}
          ELSE {BasePage})

\* the later files pages
NextPages ==
    {[BasePage EXCEPT !.html = FALSE]}
    \cup {[BasePage EXCEPT !.list = l] :
             l \in GoodLists \cup FailingLists(FileFields)}

(***************************************************************************)
(* The calls.  One action runs the code from one FetchPage (or from the    *)
(* call) to the next FetchPage or to the return.                           *)
(***************************************************************************)
NoCall == [op |-> "none", path |-> "", p |-> NilPath, compiled |-> FALSE,
           panic |-> FALSE,
           res |-> [found |-> FALSE, text |-> <<>>, nodes |-> <<>>,
                    val |-> Zero, clamp |-> "none", loc |-> "none",
                    url |-> NilURL, urls |-> <<>>, err |-> "nil"]]

Goroutines == {1, 2}

IdleGoroutine == [pc |-> "idle", op |-> "none", path |-> "", arg |-> NilPath,
                  acc |-> "none", raced |-> FALSE, calls |-> 0]

Init ==
    /\ pc = "idle"
    /\ entry = "none"
    /\ sections = 0
    /\ options = 0
    /\ todo = {}
    /\ doHeader = FALSE
    /\ results = NewCurseForge
    /\ ret = [results |-> "none", err |-> NilErr]
    /\ page = 0
    /\ pageCount = 0
    /\ streams = <<>>
    /\ fetchLog = <<>>
    /\ served = <<>>
    /\ firstLabels = <<>>
    /\ paths = EmptyMap
    /\ compiles = [s \in {} |-> 0]
    /\ seeded = EmptyMap
    /\ last = NoCall
    /\ gs = [g \in Goroutines |-> IdleGoroutine]

\* the sub-page of the project a section is fetched from (DeriveCurseForgeURLs)
UrlOf(section) ==
    IF section = CFSectionFiles THEN "files"
    ELSE IF section = CFSectionImages THEN "images"
    ELSE "project"

Body(section, p) == [sec |-> section, page |-> p, open |-> TRUE]

\* defer resp.Body.Close() of ParseCurseForge: the body of the section's
\* first page
CloseBody(ss, section) ==
    [i \in DOMAIN ss |->
        IF ss[i].sec = section /\ ss[i].page = 1
        THEN [ss[i] EXCEPT !.open = FALSE] ELSE ss[i]]

\* a mutant of NextPageIndex: every other page is left out
NextPageIndexSkip(p) == p + 2

\* page++
NextPageIndex(p) == p + 1

\* a mutant of DoHeaderAfter: doHeader is left as it is
DoHeaderKept(d) == d

\* FetchCurseForge: doHeader after a section was parsed
DoHeaderAfter(d) == FALSE

\* ParseCurseForge returns e to its caller: the caller of the package, or
\* the section loop of FetchCurseForge
Return(ent, section, td, res, e) ==
    /\ results' = res
    /\ IF ent = "Parse"
       THEN /\ pc' = "returned"
            /\ ret' = [results |-> "void", err |-> e]
            /\ UNCHANGED <<todo, doHeader>>
       ELSE IF e # NilErr
       THEN /\ pc' = "returned"
            /\ ret' = [results |-> "nil",
                       err |-> IF sections' = CFSectionHeader THEN e
                               ELSE <<"Error parsing URL", UrlOf(section)>> \o e]
            /\ UNCHANGED <<todo, doHeader>>
       ELSE /\ todo' = td \ {section}
            /\ doHeader' = DoHeaderAfter(doHeader)
            /\ IF td \ {section} = {}
               THEN /\ pc' = "returned"
                    /\ ret' = [results |-> "results", err |-> NilErr]
               ELSE /\ pc' = "loop"
                    /\ UNCHANGED ret

\* the caller of ParseCurseForge after it returned out on the first page
\* `in` of a section, whose body is the last of ss; listed says that the
\* page was read as a files listing
FirstPageParsed(ent, section, td, in, ss, listed, out) ==
    LET c == UsePaths([paths |-> paths, compiles |-> compiles], out.sels)
    IN /\ paths' = c.paths
       /\ compiles' = c.compiles
       /\ served' = IF listed THEN Append(served, in.list.rows) ELSE served
       /\ firstLabels' = IF listed THEN in.labels ELSE firstLabels
       /\ pageCount' = out.pageCount
       /\ IF out.panic
          THEN /\ pc' = "panicked"
               /\ streams' = CloseBody(ss, section)
               /\ results' = out.results
               /\ UNCHANGED <<ret, todo, doHeader, page>>
          ELSE IF out.more
          THEN /\ pc' = "files"
               /\ page' = FirstLoopPage
               /\ streams' = ss
               /\ results' = out.results
               /\ UNCHANGED <<ret, todo, doHeader>>
          ELSE /\ streams' = CloseBody(ss, section)
               /\ Return(ent, section, td, out.results, out.err)
               /\ UNCHANGED page

\* ParseCurseForge on the first page `in` of a section, whose body is the
\* last of ss
FirstPage(ent, section, parseHeader, td, o, in, ss) ==
    FirstPageParsed(ent, section, td, in, ss,
                    in.html /\ (parseHeader => in.header = 0)
                    /\ section = CFSectionFiles,
                    ParseCurseForge(results, parseHeader, section, o, in))

SectionsArgs == 0..8

OptionsArgs == 0..3

\* FetchCurseForge(projectURL, s, o) from its first statement up to its
\* first FetchPage
BeginFetchCurseForge(s, o) ==
    /\ entry' = "Fetch"
    /\ sections' = s
    /\ options' = o
    /\ results' = NewCurseForge
    /\ doHeader' = TRUE
    /\ todo' = IF s = CFSectionHeader THEN {CFSectionHeader}
               ELSE {sec \in DerivedSections : SectionsHas(s, sec)}
    /\ IF s # CFSectionHeader
          /\ {sec \in DerivedSections : SectionsHas(s, sec)} = {}
       THEN /\ pc' = "returned"
            /\ ret' = [results |-> "results", err |-> NilErr]
       ELSE /\ pc' = "loop"
            /\ UNCHANGED ret

\* a call of FetchCurseForge(projectURL, s, o)
CallFetchCurseForge(s, o) ==
    /\ pc = "idle"
    /\ BeginFetchCurseForge(s, o)
    /\ UNCHANGED <<page, pageCount, streams, fetchLog, served, firstLabels>>
    /\ UNCHANGED <<cacheVars, gs>>

\* FetchCurseForge: FetchPage of the next section (the map of section URLs
\* is iterated in any order) and ParseCurseForge on the response
FetchSection(section) ==
    /\ pc = "loop"
    /\ section \in todo
    /\ UNCHANGED <<entry, sections, options, seeded, last, gs>>
    /\ \/ /\ fetchLog' = Append(fetchLog,
                             [sec |-> section, page |-> 1, ok |-> FALSE,
                              hdr |-> FALSE])
          /\ pc' = "returned"
          /\ ret' = [results |-> "nil",
                     err |-> IF sections = CFSectionHeader THEN <<"fetch">>
                             ELSE <<"Error fetching URL", UrlOf(section),
                                    "fetch">>]
          /\ UNCHANGED <<todo, doHeader, results, page, pageCount, streams,
                         served, firstLabels, paths, compiles>>
       \/ /\ fetchLog' = Append(fetchLog,
                             [sec |-> section, page |-> 1, ok |-> TRUE,
                              hdr |-> doHeader])
          /\ \E in \in FirstPages(doHeader, section, options) :
                FirstPage("Fetch", section, doHeader, todo, options, in,
                          Append(streams, Body(section, 1)))

\* results.ParseCurseForge(documentURL, resp, parseHeader, section, o),
\* called with a response the caller fetched
CallParseCurseForge(parseHeader, section, o) ==
    /\ pc = "idle"
    /\ entry' = "Parse"
    /\ sections' = section
    /\ options' = o
    /\ UNCHANGED <<fetchLog, seeded, last, gs>>
    /\ \E in \in FirstPages(parseHeader, section, o) :
          FirstPage("Parse", section, parseHeader, {}, o, in,
                    Append(streams, Body(section, 1)))

\* parseCFFiles: one turn of the page loop, and the return when it was the
\* last one; the body of a later page is not closed anywhere
FilesNextPage ==
    /\ pc = "files"
    /\ UNCHANGED <<entry, sections, options, firstLabels, pageCount,
                   seeded, last, gs>>
    /\ \/ /\ fetchLog' = Append(fetchLog,
                             [sec |-> CFSectionFiles, page |-> page,
                              ok |-> FALSE, hdr |-> FALSE])
          /\ streams' = CloseBody(streams, CFSectionFiles)
          /\ Return(entry, CFSectionFiles, todo, results,
                    <<"error processing CF Files",
                      "error fetching subsequent files page", ToString(page),
                      "fetch">>)
          /\ UNCHANGED <<page, served, paths, compiles>>
       \/ /\ fetchLog' = Append(fetchLog,
                             [sec |-> CFSectionFiles, page |-> page,
                              ok |-> TRUE, hdr |-> FALSE])
          /\ \E in \in NextPages :
                LET ss == Append(streams, Body(CFSectionFiles, page))
                    one == parseCFFilesSinglePage(results, page, in.list)
                    c == UsePaths([paths |-> paths, compiles |-> compiles],
                                  one.sels)
                IN IF ~in.html
                   THEN /\ streams' = CloseBody(ss, CFSectionFiles)
                        /\ Return(entry, CFSectionFiles, todo, results,
                                  <<"error processing CF Files",
                                    "error parsing xml/http for subsequent files page",
                                    ToString(page), "markup">>)
                        /\ UNCHANGED <<page, served, paths, compiles>>
                   ELSE /\ served' = Append(served, in.list.rows)
                        /\ paths' = c.paths
                        /\ compiles' = c.compiles
                        /\ IF one.err # NilErr
                           THEN /\ streams' = CloseBody(ss, CFSectionFiles)
                                /\ Return(entry, CFSectionFiles, todo,
                                          one.results,
                                          <<"error processing CF Files",
                                            "error parsing first files page">>
                                          \o one.err)
                                /\ UNCHANGED page
                           ELSE /\ page' = NextPageIndex(page)
                                /\ IF NextPageIndex(page) <= pageCount
                                   THEN /\ streams' = ss
                                        /\ results' = one.results
                                        /\ UNCHANGED <<pc, ret, todo, doHeader>>
                                   ELSE /\ streams' = CloseBody(ss, CFSectionFiles)
                                        /\ Return(entry, CFSectionFiles, todo,
                                                  one.results, NilErr)

Next ==
    \/ \E s \in SectionsArgs, o \in OptionsArgs : CallFetchCurseForge(s, o)
    \/ \E section \in DerivedSections \cup {CFSectionHeader} :
          FetchSection(section)
    \/ \E parseHeader \in BOOLEAN,
          section \in DerivedSections \cup {CFSectionHeader},
          o \in OptionsArgs :
          CallParseCurseForge(parseHeader, section, o)
    \/ FilesNextPage

Spec == Init /\ [][Next]_vars

(***************************************************************************)
(* The page loop of parseCFFiles with the counters as wide as in the code: *)
(* page and pageCount are uint64 and are kept as decimal numerals.  A      *)
(* first files page with its rows in order was parsed, the pagination      *)
(* labels are scanned, and the loop runs.  A long run of turns that all    *)
(* succeed is one step (WalkTurns); MaxTurns turns are followed one by     *)
(* one.  last keeps the page of the last fetch.                            *)
(***************************************************************************)
\* a <= b for two numerals
NumLE(a, b) ==
    \/ Len(a) < Len(b)
    \/ Len(a) = Len(b) /\ (a = b \/ DigitsLess(a, b))

RECURSIVE IncDigits(_)
\* the numeral of d + 1
IncDigits(d) ==
    IF d = <<>> THEN <<"1">>
    ELSE IF d[Len(d)] = "9"
    THEN IncDigits(SubSeq(d, 1, Len(d) - 1)) \o <<"0">>
    ELSE SubSeq(d, 1, Len(d) - 1) \o <<Digits[DigitVal(d[Len(d)]) + 2]>>

\* page++ on a uint64: 2^64 - 1 is followed by 0
Inc64(d) == IF d = MaxUint64Digits THEN Zero ELSE IncDigits(d)

RECURSIVE ScanLabels(_, _)
\* the loop over the pagination items, pageCount a uint64
ScanLabels(labels, count) ==
    IF labels = <<>> THEN [pageCount |-> count, err |-> NilErr]
    ELSE IF ParseUInt(Head(labels)).err # "nil"
    THEN [pageCount |-> count,
          err |-> <<"error parsing page number", ParseUInt(Head(labels)).err>>]
    ELSE ScanLabels(Tail(labels),
                    IF NumLE(ParseUInt(Head(labels)).val, count) THEN count
                    ELSE ParseUInt(Head(labels)).val)

\* the pagination controls of the first page: small page counts and page
\* counts around the limits of 63 and 64 bits
WideLabelLists ==
    {<<>>, << <<"-">> >>, << <<"x">> >>, << <<"1">> >>, << <<"2">> >>,
     << <<"3">> >>, << <<"1">>, <<"4">> >>,
     << <<"1", ",", "0", "0", "1">> >>,
     << <<"2">>, MaxInt64Digits >>,
     << SubSeq(MaxUint64Digits, 1, 19) \o <<"3">> >>,
     << SubSeq(MaxUint64Digits, 1, 19) \o <<"4">>, <<"1">> >>,
     << MaxUint64Digits >>,
     << SubSeq(MaxUint64Digits, 1, 19) \o <<"6">> >>}

\* the pages before which a long run of turns is taken to end
RunEnds ==
    {<<"9", "9", "9">>, MaxInt64Digits,
     SubSeq(MaxUint64Digits, 1, 19) \o <<"2">>,
     SubSeq(MaxUint64Digits, 1, 19) \o <<"3">>,
     SubSeq(MaxUint64Digits, 1, 19) \o <<"4">>}

\* parseCFFiles returns e
WalkReturn(e) ==
    /\ pc' = "returned"
    /\ ret' = [results |-> "void", err |-> e]

\* the loop test page <= pageCount for the values p and count
WalkTest(p, count) ==
    IF NumLE(p, count) THEN pc' = "walk" /\ UNCHANGED ret
    ELSE WalkReturn(NilErr)

\* parseCFFiles from the scan of the labels of its first page to the
\* first test of the page loop
CallParseCFFiles(labels) ==
    /\ pc = "idle"
    /\ entry' = "Parse"
    /\ sections' = CFSectionFiles
    /\ firstLabels' = labels
    /\ last' = [op |-> "parseCFFiles", panic |-> FALSE, fetched |-> <<>>,
                turns |-> 0]
    /\ pageCount' = ScanLabels(labels, Zero).pageCount
    /\ IF ScanLabels(labels, Zero).err # NilErr
       THEN /\ WalkReturn(<<"error processing CF Files">>
                          \o ScanLabels(labels, Zero).err)
            /\ UNCHANGED page
       ELSE /\ page' = ToDigits(FirstLoopPage)
            /\ WalkTest(ToDigits(FirstLoopPage),
                        ScanLabels(labels, Zero).pageCount)
    /\ UNCHANGED <<options, todo, doHeader, results, streams, fetchLog,
                   served, paths, compiles, seeded, gs>>

\* one turn of the loop: the page is fetched and parsed, then page++ and
\* the loop test
WalkTurn ==
    /\ pc = "walk"
    /\ last.turns < MaxTurns
    /\ last' = [last EXCEPT !.fetched = page, !.turns = @ + 1]
    /\ page' = Inc64(page)
    /\ WalkTest(Inc64(page), pageCount)
    /\ UNCHANGED <<entry, sections, options, todo, doHeader, results,
                   pageCount, streams, fetchLog, served, firstLabels, paths,
                   compiles, seeded, gs>>

\* the turns for the pages page..before in a row, all succeeding, the
\* page after them being within the page count
WalkTurns(before) ==
    /\ pc = "walk"
    /\ NumLE(page, before)
    /\ NumLE(IncDigits(before), pageCount)
    /\ last' = [last EXCEPT !.fetched = before]
    /\ page' = IncDigits(before)
    /\ UNCHANGED <<pc, ret, entry, sections, options, todo, doHeader, results,
                   pageCount, streams, fetchLog, served, firstLabels, paths,
                   compiles, seeded, gs>>

\* one turn of the loop that fails: the fetch, the markup or a row
WalkFails ==
    /\ pc = "walk"
    /\ last' = [last EXCEPT !.fetched = page]
    /\ WalkReturn(<<"error processing CF Files",
                    "error fetching subsequent files page">>)
    /\ UNCHANGED <<entry, sections, options, todo, doHeader, results, page,
                   pageCount, streams, fetchLog, served, firstLabels, paths,
                   compiles, seeded, gs>>

WalkNext ==
    \/ \E labels \in WideLabelLists : CallParseCFFiles(labels)
    \/ WalkTurn
    \/ \E before \in RunEnds : WalkTurns(before)
    \/ WalkFails

SpecWalk == Init /\ [][WalkNext]_vars

(***************************************************************************)
(* FetchCurseForge called twice with the same arguments on a site whose    *)
(* pages do not change and whose fetches succeed: the overview page lists  *)
(* last.recent recent files, the files page last.files files and no        *)
(* pagination.  last keeps the arguments, the site, and what the first     *)
(* call returned.                                                          *)
(***************************************************************************)
\* the page of a section on the site
SitePage(section, recent, files) ==
    [BasePage EXCEPT !.list = [NoList EXCEPT !.rows =
                                  IF section = CFSectionOverview THEN recent
                                  ELSE IF section = CFSectionFiles THEN files
                                  ELSE 0]]

\* the first call of FetchCurseForge(projectURL, s, o)
RunFirst(s, o, recent, files) ==
    /\ pc = "idle"
    /\ BeginFetchCurseForge(s, o)
    /\ last' = [op |-> "FetchCurseForge", panic |-> FALSE, run |-> 1,
                recent |-> recent, files |-> files]
    /\ UNCHANGED <<page, pageCount, streams, fetchLog, served, firstLabels,
                   paths, compiles, seeded, gs>>

\* the first call has returned; the second call with the same arguments
RunSecond ==
    /\ pc = "returned"
    /\ last.op = "FetchCurseForge"
    /\ last.run = 1
    /\ BeginFetchCurseForge(sections, options)
    /\ last' = [last EXCEPT !.run = 2] @@
                [first |-> [results |-> results, ret |-> ret,
                            fetched |-> [i \in DOMAIN fetchLog |->
                                            fetchLog[i].sec]]]
    /\ fetchLog' = <<>>
    /\ served' = <<>>
    /\ firstLabels' = <<>>
    /\ UNCHANGED <<page, pageCount, streams, paths, compiles, seeded, gs>>

\* the section loop of FetchCurseForge on the site: the map of section
\* URLs is iterated in any order
RunFetchSection(section) ==
    /\ pc = "loop"
    /\ last.op = "FetchCurseForge"
    /\ section \in todo
    /\ fetchLog' = Append(fetchLog, [sec |-> section, page |-> 1,
                                     ok |-> TRUE, hdr |-> doHeader])
    /\ FirstPage("Fetch", section, doHeader, todo, options,
                 SitePage(section, last.recent, last.files),
                 Append(streams, Body(section, 1)))
    /\ UNCHANGED <<entry, sections, options, seeded, last, gs>>

RunsNext ==
    \/ \E s \in SectionsArgs, o \in OptionsArgs,
          recent \in 0..MaxRows, files \in 0..MaxRows :
          RunFirst(s, o, recent, files)
    \/ RunSecond
    \/ \E section \in DerivedSections \cup {CFSectionHeader} :
          RunFetchSection(section)

SpecRuns == Init /\ [][RunsNext]_vars

(***************************************************************************)
(* One page handed to a page parser, with its optional links present or    *)
(* missing.  last keeps the call and the page it was made on.              *)
(***************************************************************************)
\* CurseForge pages told apart by the values parseCFHeader reads
LinkPages ==
    {[BasePage EXCEPT !.html = FALSE]}
    \cup {[BasePage EXCEPT !.header = h, !.absent = a] :
             h \in {0} \cup Required(HeaderSteps),
             a \in SUBSET Optional(HeaderSteps)}
    \cup {[BasePage EXCEPT !.sidebar = FALSE, !.absent = a] :
             a \in SUBSET Optional(HeaderSteps)}

\* mods.curse.com pages told apart by what ParseCurse reads
CursePages ==
    {[url |-> u, html |-> m, fail |-> f, absent |-> a, words |-> w] :
        u \in BOOLEAN, m \in BOOLEAN, f \in {0} \cup CurseRequired,
        a \in SUBSET CurseOptional, w \in 0..2}

\* results.ParseCurseForge(documentURL, resp, parseHeader, section, o) on
\* the page in, results being a new record
CallParseCurseForgeOn(parseHeader, section, o, in) ==
    /\ pc = "idle"
    /\ entry' = "Parse"
    /\ sections' = section
    /\ options' = o
    /\ last' = [op |-> "ParseCurseForge", panic |-> FALSE,
                parseHeader |-> parseHeader, in |-> in]
    /\ UNCHANGED <<fetchLog, seeded, gs>>
    /\ FirstPage("Parse", section, parseHeader, {}, o, in,
                 Append(streams, Body(section, 1)))

\* ParseCurse(documentURL, resp) on the page in; the deferred Close runs on
\* every way out
CallParseCurse(in) ==
    /\ pc = "idle"
    /\ entry' = "ParseCurse"
    /\ LET out == ParseCurse(in)
           c == UsePaths([paths |-> paths, compiles |-> compiles], out.sels)
       IN /\ paths' = c.paths
          /\ compiles' = c.compiles
          /\ pc' = IF out.panic THEN "panicked" ELSE "returned"
          /\ ret' = IF out.panic THEN ret
                    ELSE [results |-> out.results, err |-> out.err]
    /\ streams' = Append(streams, [Body("curse", 1) EXCEPT !.open = FALSE])
    /\ last' = [op |-> "ParseCurse", panic |-> FALSE, in |-> in]
    /\ UNCHANGED <<sections, options, todo, doHeader, results, page,
                   pageCount, fetchLog, served, firstLabels, seeded, gs>>

PageNext ==
    \/ \E parseHeader \in BOOLEAN,
          section \in {CFSectionHeader, CFSectionOverview, CFSectionImages},
          o \in OptionsArgs, in \in LinkPages :
          CallParseCurseForgeOn(parseHeader, section, o, in)
    \/ \E in \in CursePages : CallParseCurse(in)

SpecPage == Init /\ [][PageNext]_vars

(***************************************************************************)
(* util.go: the typed accessors.  nodes is what the compiled path selects  *)
(* in the context, as the texts of the selected nodes in document order.   *)
(***************************************************************************)
NoResult == [found |-> FALSE, text |-> <<>>, nodes |-> <<>>, val |-> Zero,
             clamp |-> "none", loc |-> "none", url |-> NilURL,
             urls |-> <<>>, err |-> "nil"]

\* xmlpath: p.String(context), the text of the first node selected
PathString(nodes) ==
    IF nodes = <<>> THEN [s |-> <<>>, ok |-> FALSE]
    ELSE [s |-> nodes[1], ok |-> TRUE]

\* cache.String after GetCompiledPath
String(nodes) ==
    LET r == PathString(nodes)
    IN IF ~r.ok THEN [NoResult EXCEPT !.text = r.s]
       ELSE [NoResult EXCEPT !.found = TRUE, !.text = TrimSpace(r.s)]

\* cache.Iter after GetCompiledPath
Iter(nodes) == [NoResult EXCEPT !.found = nodes # <<>>, !.nodes = nodes]

\* cache.Node after GetCompiledPath
Node(nodes) ==
    IF Iter(nodes).nodes = <<>> THEN NoResult
    ELSE [NoResult EXCEPT !.found = TRUE, !.text = Iter(nodes).nodes[1]]

\* cache.UInt after GetCompiledPath
UInt(nodes) ==
    LET parseString == String(nodes)
    IN IF ~parseString.found THEN [NoResult EXCEPT !.err = "node not found"]
       ELSE LET r == ParseUInt(parseString.text)
            IN [NoResult EXCEPT !.found = TRUE, !.val = r.val,
                                !.clamp = r.clamp, !.err = r.err]

\* cache.Int after GetCompiledPath
XpathCacheInt(nodes) ==
    LET parseString == String(nodes)
    IN IF ~parseString.found THEN [NoResult EXCEPT !.err = "node not found"]
       ELSE LET r == ParseInt(parseString.text)
            IN [NoResult EXCEPT !.found = TRUE, !.val = r.val,
                                !.clamp = r.clamp, !.err = r.err]

\* time.Unix(sec, 0): the instant sec seconds after the epoch, in the local
\* time zone; r is the result record the time is written into
TimeUnix(r, sec) == [r EXCEPT !.val = sec, !.clamp = "none", !.loc = "Local"]

\* t.UTC()
UTC(t) == [t EXCEPT !.loc = "UTC"]

\* a mutant of UnixTimestamp: the number is made a time whether or not
\* there was an error
UnixTimestampOfAnything(nodes) ==
    LET ts == XpathCacheInt(nodes)
    IN [UTC(TimeUnix(ts, ts.val)) EXCEPT !.clamp = ts.clamp]

\* cache.UnixTimestamp after GetCompiledPath: val is the seconds since the
\* epoch of the time returned
UnixTimestamp(nodes) ==
    LET ts == XpathCacheInt(nodes)
    IN IF ts.err # "nil" THEN UTC(TimeUnix(ts, Zero))
       ELSE UTC(TimeUnix(ts, ts.val))

\* cache.URL after ParseURL returned r
URLParsed(r) == [NoResult EXCEPT !.found = TRUE, !.url = r.url, !.err = r.err]

\* cache.URL after cache.String returned urlString
URLOfText(urlString) ==
    IF ~urlString.found THEN [NoResult EXCEPT !.err = "node not found"]
    ELSE URLParsed(ParseURL(urlString.text))

\* cache.URL after GetCompiledPath
URL(nodes) == URLOfText(String(nodes))

\* a mutant of URLWithBaseURL: an absent node gives the empty URL and no
\* error
URLWithBaseURLLenient(nodes, base) ==
    [NoResult EXCEPT !.url = ResolveReference(base, EmptyURL)]

\* URLWithBaseURL, the end: the scheme of the resolved URL
Resolved(parsedURL) ==
    [NoResult EXCEPT !.found = TRUE,
                     !.url = IF parsedURL.Scheme = <<>>
                             THEN [parsedURL EXCEPT !.Scheme = HttpScheme]
                             ELSE parsedURL]

\* URLWithBaseURL after url.Parse returned parsedURL
ResolveParsed(parsedURL, base) ==
    IF parsedURL.err # "nil"
    THEN [NoResult EXCEPT !.found = TRUE, !.err = parsedURL.err]
    ELSE Resolved(ResolveReference(base, parsedURL.url))

\* URLWithBaseURL after cache.String returned urlString
ResolveText(urlString, base) ==
    IF ~urlString.found THEN [NoResult EXCEPT !.err = "node not found"]
    ELSE ResolveParsed(UrlParse(TrimSpace(urlString.text)), base)

\* cache.URLWithBaseURL after GetCompiledPath, for a base that is not nil
URLWithBaseURL(nodes, base) == ResolveText(String(nodes), base)

\* URLWithBase after url.Parse returned url for the base text
ResolveWithBase(nodes, url) ==
    IF url.err # "nil" THEN [NoResult EXCEPT !.err = url.err]
    ELSE URLWithBaseURL(nodes, url.url)

\* cache.URLWithBase: the base text is parsed before the selector is
\* looked at
URLWithBase(nodes, base) == ResolveWithBase(nodes, UrlParse(TrimSpace(base)))

AccessorKinds == {"String", "Iter", "Node", "UInt", "Int", "UnixTimestamp"}

Accessor(kind, nodes) ==
    CASE kind = "String" -> String(nodes)
      [] kind = "Iter" -> Iter(nodes)
      [] kind = "Node" -> Node(nodes)
      [] kind = "UInt" -> UInt(nodes)
      [] kind = "Int" -> XpathCacheInt(nodes)
      [] kind = "UnixTimestamp" -> UnixTimestamp(nodes)

(***************************************************************************)
(* The operations of one XpathCache, called one after the other.  A panic  *)
(* is not recovered anywhere in the package: it ends the process.          *)
(***************************************************************************)
Selectors == {"//a", "//b", "//a["}

\* what a caller hands to AddToCache: a compiled path (here the one
\* compiled from "//b") or nil
Queries == {MustCompile("//b"), NilPath}

NodeLists ==
    {<<>>, << <<" ", "-", "7", " ">> >>, << <<"1", ",", "0">>, <<"x">> >>}

CallGetCompiledPath(path) ==
    /\ ~last.panic
    /\ LET g == GetCompiledPath(paths, path)
       IN /\ paths' = g.paths
          /\ compiles' = IF g.compiled THEN Counted(compiles, path)
                         ELSE compiles
          /\ last' = [op |-> "GetCompiledPath", path |-> path, p |-> g.p,
                      compiled |-> g.compiled, panic |-> g.panic,
                      res |-> NoResult]
    /\ UNCHANGED <<aggVars, seeded, gs>>

CallAddToCache(uncompiled, compiled) ==
    /\ ~last.panic
    /\ paths' = AddToCache(paths, uncompiled, compiled)
    /\ seeded' = [s \in (DOMAIN seeded) \cup {uncompiled} |->
                     IF s = uncompiled THEN compiled ELSE seeded[s]]
    /\ last' = [op |-> "AddToCache", path |-> uncompiled, p |-> compiled,
                compiled |-> FALSE, panic |-> FALSE, res |-> NoResult]
    /\ UNCHANGED <<aggVars, compiles, gs>>

CallClear ==
    /\ ~last.panic
    /\ paths' = Clear(paths)
    /\ compiles' = [s \in {} |-> 0]
    /\ seeded' = EmptyMap
    /\ last' = [op |-> "Clear", path |-> "", p |-> NilPath,
                compiled |-> FALSE, panic |-> FALSE, res |-> NoResult]
    /\ UNCHANGED <<aggVars, gs>>

\* a typed accessor: GetCompiledPath, then the compiled path it returned is
\* evaluated (a nil path is dereferenced: panic), then the conversion
CallAccessor(kind, path, nodes) ==
    /\ ~last.panic
    /\ LET g == GetCompiledPath(paths, path)
           deref == ~g.panic /\ g.p = NilPath
       IN /\ paths' = g.paths
          /\ compiles' = IF g.compiled THEN Counted(compiles, path)
                         ELSE compiles
          /\ last' = [op |-> kind, path |-> path, p |-> g.p,
                      compiled |-> g.compiled, panic |-> g.panic \/ deref,
                      res |-> IF g.panic \/ deref THEN NoResult
                              ELSE Accessor(kind, nodes)]
    /\ UNCHANGED <<aggVars, seeded, gs>>

CacheNext ==
    \/ \E path \in Selectors : CallGetCompiledPath(path)
    \/ \E uncompiled \in Selectors, compiled \in Queries :
          CallAddToCache(uncompiled, compiled)
    \/ CallClear
    \/ \E kind \in AccessorKinds, path \in Selectors, nodes \in NodeLists :
          CallAccessor(kind, path, nodes)

SpecCache == Init /\ [][CacheNext]_vars

(***************************************************************************)
(* The conversions of util.go called on their own: ParseUInt, ParseInt,    *)
(* ParseURL, and the typed accessors on the nodes a valid selector ("//a") *)
(* selects.  The functions keep no state but the cache of compiled paths,  *)
(* so one call from the initial state is every call.  last keeps the call, *)
(* its arguments and what it returned.                                     *)
(***************************************************************************)
\* texts whose trimmed form is "-"
DashTexts ==
    {<<"-">>, <<" ", "-", " ">>, <<"-", "\n">>, <<"\t", "-">>,
     <<" ", " ", "-">>}

\* numbers with commas, surrounded by whitespace
PaddedNumbers ==
    {<<" ", "4", "2", " ">>, <<"1", ",", "0", "0", "0", " ">>,
     <<"\n", "7">>,
     <<" ", "1", ",", "2", "3", "4", ",", "5", "6", "7", "\t">>}

\* other texts: not numbers, signed, grouped oddly, leading zeros
UnsignedTexts ==
    {<<>>, <<",">>, <<",", ",">>, <<" ">>, <<"1", "2", "a">>, <<"+", "5">>,
     <<"-", "5">>, <<"-", "0">>, <<"-", "4", "2">>, <<"1", " ", "2">>,
     <<"-", ",">>, <<"-", " ", "1">>, <<"-", "-">>, <<"0", "0", "7">>,
     <<"1", ",", "2", ",", "3">>, <<"1", ",", ",", "0">>, <<"x">>,
     <<"1", ".", "5">>}

\* numerals around the limits of 64 bits
LimitNumerals ==
    {MaxUint64Digits, MaxInt64Digits, MinInt64Digits,
     SubSeq(MaxUint64Digits, 1, 19) \o <<"6">>,
     MaxUint64Digits \o <<"0">>,
     ToDigits(42949) \o ToDigits(67296)}

\* the numbers 0..MaxNumber are rendered and parsed one by one
MaxNumber == 1100

\* the decimal numerals the round trip is checked on
Numerals == {ToDigits(n) : n \in 0..MaxNumber} \cup LimitNumerals

RECURSIVE FormatWithSeparators(_)
\* the numeral d with a comma before every group of three digits
FormatWithSeparators(d) ==
    IF Len(d) <= 3 THEN d
    ELSE FormatWithSeparators(SubSeq(d, 1, Len(d) - 3))
         \o <<",">> \o SubSeq(d, Len(d) - 2, Len(d))

\* the texts handed to ParseUInt and ParseInt
NumberTexts ==
    DashTexts \cup PaddedNumbers \cup UnsignedTexts
    \cup {FormatWithSeparators(d) : d \in Numerals}
    \cup LimitNumerals
    \cup {<<"-">> \o d : d \in LimitNumerals}

\* URL texts that begin with "//"
SchemelessTexts ==
    {<<"/", "/", "h", "/", "x">>, <<"/", "/", "h">>,
     <<"/", "/", "h", "/", "x", "?", "q", "#", "f">>,
     <<"/", "/", "/", "x">>, <<"/", "/", "h", " ", "h", "/", "x">>,
     <<"/", "/", "h", ":", "8", "a", "/">>,
     <<"/", "/", "h", "/", "%", "z", "z">>,
     <<"/", "/", "H", ".", "c", ":", "8", "0", "/", "a", "/", ".", ".", "/", "b">>}

\* other URL texts
OtherUrlTexts ==
    {<<>>, <<"/", "x">>, <<"x">>, <<".", ".", "/", "y">>, <<".", "/", "y">>,
     <<"?", "q">>, <<"#", "f">>,
     <<"h", "t", "t", "p", ":", "/", "/", "h", "/", "x">>,
     <<"H", "T", "T", "P", ":", "/", "/", "h">>,
     <<"h", "t", "t", "p", "s", ":", "/", "/", "h", "/", "x">>,
     <<"f", "t", "p", ":", "/", "/", "h", "/", "x">>, <<":", "x">>,
     <<"a", ":", "b">>, <<"1", ":", "2">>, <<" ", "/", "/", "h", "/", "x">>,
     <<"/", "%", "z", "z">>, <<"/", "a", " ", "b">>, <<"*">>,
     <<"h", "t", "t", "p", ":", "/", "/", "h", "?">>,
     <<"/", "a", "/", ".", ".", "/", "b">>, <<"/", "a", "/", ".", "/", "b", "?", "q">>,
     <<"/">>, <<" ", "/", "m", "/", "a", " ">>,
     <<"h", "t", "t", "p", ":", "/", "/", "h", "/", "a", "/", ".", ".", "/", "b">>,
     <<"h", "t", "t", "p", "s", ":", "/", "/", "o", "/", "y", "?", "q">>,
     <<"m", "a", "i", "l", "t", "o", ":", "m">>}

UrlTexts == SchemelessTexts \cup OtherUrlTexts

\* the texts of the project URLs handed to DeriveCurseForgeURLs
ProjectTexts ==
    {<<"h", "t", "t", "p", "s", ":", "/", "/", "h", "/", "p", "/", "t">>,
     <<"h", "t", "t", "p", "s", ":", "/", "/", "h", "/", "p", "/", "t", "/">>,
     <<"h", "t", "t", "p", "s", ":", "/", "/", "h">>,
     <<"h", "t", "t", "p", "s", ":", "/", "/", "h", "/">>,
     <<"h", "t", "t", "p", ":", "/", "/", "u", ":", "w", "@", "h", ":", "8", "/", "p", "?", "q", "#", "f">>,
     <<"h", "t", "t", "p", "s", ":", "/", "/", "h", "/", "a", "/", ".", ".", "/", "b">>,
     <<"h", "t", "t", "p", "s", ":", "/", "/", "h", "/", "a", "/", "/", "b">>,
     <<"h", "t", "t", "p", "s", ":", "/", "/", "h", "/", "p", "/", ".", "/", "t">>,
     <<"h", "t", "t", "p", "s", ":", "/", "/", "h", "/", ".", ".">>,
     <<"/", "/", "h", "/", "p">>, <<"/", "p">>, <<"p", "/", "t">>,
     <<".", ".", "/", "p">>, <<>>, <<"m", "a", "i", "l", "t", "o", ":", "m">>}
     \cup UrlTexts

\* the base texts handed to URLWithBase
BaseTexts ==
    {<<"h", "t", "t", "p", ":", "/", "/", "b", "/", "p", "/", "q">>,
     <<"h", "t", "t", "p", "s", ":", "/", "/", "b", "/", "p", "/", "q">>,
     <<" ", "h", "t", "t", "p", "s", ":", "/", "/", "b", "/", "p", " ">>,
     <<"/", "/", "b", "/", "p">>, <<"/", "p">>, <<>>, <<":", "b">>,
     <<"m", "a", "i", "l", "t", "o", ":", "m">>}

\* the nodes a selector selects: none, or one node with a text
NumberNodes ==
    {<<>>} \cup {<<t>> : t \in DashTexts \cup PaddedNumbers \cup UnsignedTexts}
    \cup {<< <<"-">> \o d >> : d \in LimitNumerals}
    \cup {<<d>> : d \in LimitNumerals}
    \cup {<< <<"1", "0">>, <<"x">> >>}

UrlNodes == {<<>>} \cup {<<t>> : t \in UrlTexts}

Call(op, arg, base, res) ==
    [op |-> op, panic |-> FALSE, arg |-> arg, base |-> base, res |-> res]

\* ParseUInt(text)
CallParseUInt(text) ==
    /\ last = NoCall
    /\ last' = Call("ParseUInt", text, <<>>,
                    [NoResult EXCEPT !.val = ParseUInt(text).val,
                                     !.clamp = ParseUInt(text).clamp,
                                     !.err = ParseUInt(text).err])
    /\ UNCHANGED <<aggVars, paths, compiles, seeded, gs>>

\* ParseInt(text)
CallParseInt(text) ==
    /\ last = NoCall
    /\ last' = Call("ParseInt", text, <<>>,
                    [NoResult EXCEPT !.val = ParseInt(text).val,
                                     !.clamp = ParseInt(text).clamp,
                                     !.err = ParseInt(text).err])
    /\ UNCHANGED <<aggVars, paths, compiles, seeded, gs>>

\* ParseURL(text)
CallParseURL(text) ==
    /\ last = NoCall
    /\ last' = Call("ParseURL", text, <<>>,
                    [NoResult EXCEPT !.url = ParseURL(text).url,
                                     !.err = ParseURL(text).err])
    /\ UNCHANGED <<aggVars, paths, compiles, seeded, gs>>

\* DeriveCurseForgeURLs(projectURL), projectURL parsed from text; base
\* keeps the URL projectURL points to after the call
CallDeriveCurseForgeURLs(text) ==
    /\ last = NoCall
    /\ UrlParse(text).err = "nil"
    /\ last' = Call("DeriveCurseForgeURLs", text,
                    DeriveCurseForgeURLs(UrlParse(text).url).projectURL,
                    [NoResult EXCEPT
                        !.urls = DeriveCurseForgeURLs(UrlParse(text).url).urls,
                        !.err = DeriveCurseForgeURLs(UrlParse(text).url).err])
    /\ UNCHANGED <<aggVars, paths, compiles, seeded, gs>>

\* pathCache.<kind>(context, "//a"), the selector selecting nodes
CallTyped(kind, nodes) ==
    /\ last = NoCall
    /\ LET g == GetCompiledPath(paths, "//a")
       IN /\ paths' = g.paths
          /\ compiles' = Counted(compiles, "//a")
    /\ last' = Call(kind, nodes, <<>>,
                    IF kind = "URL" THEN URL(nodes) ELSE Accessor(kind, nodes))
    /\ UNCHANGED <<aggVars, seeded, gs>>

\* pathCache.URLWithBase(context, "//a", base); the selector is resolved
\* only when the base parses
CallURLWithBase(nodes, base) ==
    /\ last = NoCall
    /\ LET g == GetCompiledPath(paths, "//a")
           parsed == UrlParse(TrimSpace(base)).err = "nil"
       IN /\ paths' = IF parsed THEN g.paths ELSE paths
          /\ compiles' = IF parsed THEN Counted(compiles, "//a")
                         ELSE compiles
    /\ last' = Call("URLWithBase", nodes, base, URLWithBase(nodes, base))
    /\ UNCHANGED <<aggVars, seeded, gs>>

\* pathCache.URLWithBaseURL(context, "//a", b), b being the URL the caller
\* parsed from base
CallURLWithBaseURL(nodes, base) ==
    /\ last = NoCall
    /\ UrlParse(base).err = "nil"
    /\ LET g == GetCompiledPath(paths, "//a")
       IN /\ paths' = g.paths
          /\ compiles' = Counted(compiles, "//a")
    /\ last' = Call("URLWithBaseURL", nodes, base,
                    URLWithBaseURL(nodes, UrlParse(base).url))
    /\ UNCHANGED <<aggVars, seeded, gs>>

UtilNext ==
    \/ \E text \in NumberTexts : CallParseUInt(text)
    \/ \E text \in NumberTexts : CallParseInt(text)
    \/ \E text \in UrlTexts : CallParseURL(text)
    \/ \E text \in ProjectTexts : CallDeriveCurseForgeURLs(text)
    \/ \E kind \in AccessorKinds, nodes \in NumberNodes :
          CallTyped(kind, nodes)
    \/ \E nodes \in UrlNodes : CallTyped("URL", nodes)
    \/ \E nodes \in UrlNodes, base \in BaseTexts :
          CallURLWithBase(nodes, base)
    \/ \E nodes \in UrlNodes, base \in BaseTexts :
          CallURLWithBaseURL(nodes, base)

SpecUtil == Init /\ [][UtilNext]_vars

(***************************************************************************)
(* The same operations called from several goroutines on the one           *)
(* pathCache.  The code takes no lock: an access to cache.paths (the map   *)
(* read of GetCompiledPath, the map write of AddToCache, the assignment    *)
(* of Clear) begins and ends, and other goroutines run in between.  An     *)
(* access that overlaps a conflicting one is a data race; what the build   *)
(* does then is one of: the runtime ends the process (concurrent map       *)
(* access detected), the access behaves as if alone, the read misses the   *)
(* entry, the write is lost.                                               *)
(***************************************************************************)
\* the goroutines whose access in progress conflicts with an access acc of g
Conflicts(g, acc) ==
    {h \in Goroutines \ {g} :
        gs[h].acc # "none" /\ (acc = "write" \/ gs[h].acc = "write")}

BeginAccess(g, rec) ==
    gs' = [h \in Goroutines |->
              IF h = g THEN [rec EXCEPT !.raced = Conflicts(g, rec.acc) # {}]
              ELSE IF h \in Conflicts(g, rec.acc)
              THEN [gs[h] EXCEPT !.raced = TRUE]
              ELSE gs[h]]

\* g is back in its caller
Returned(g) == [IdleGoroutine EXCEPT !.calls = gs[g].calls]

Fatal(g) ==
    [op |-> gs[g].op, path |-> gs[g].path, p |-> NilPath,
     compiled |-> FALSE, panic |-> TRUE, res |-> NoResult]

\* GetCompiledPath: p, ok := cache.paths[path] begins
GoGetCompiledPath(g, path) ==
    /\ ~last.panic
    /\ gs[g].pc = "idle"
    /\ gs[g].calls < MaxCalls
    /\ BeginAccess(g, [gs[g] EXCEPT !.pc = "lookup",
                                    !.op = "GetCompiledPath",
                                    !.path = path, !.acc = "read",
                                    !.calls = @ + 1])
    /\ UNCHANGED <<aggVars, cacheVars>>

\* what the map read of g can give
LookupOutcomes(g) ==
    {MapLookup(paths, gs[g].path)}
        \cup (IF gs[g].raced THEN {[p |-> NilPath, ok |-> FALSE]} ELSE {})

\* GetCompiledPath: the map read ends; a hit returns, a miss compiles and
\* begins the map write of AddToCache
GoLookupDone(g) ==
    /\ ~last.panic
    /\ gs[g].pc = "lookup"
    /\ \/ /\ gs[g].raced
          /\ last' = Fatal(g)
          /\ gs' = [gs EXCEPT ![g] = Returned(g)]
          /\ UNCHANGED <<paths, compiles>>
       \/ \E l \in LookupOutcomes(g) :
             IF l.ok
             THEN /\ last' = [op |-> "GetCompiledPath", path |-> gs[g].path,
                              p |-> l.p, compiled |-> FALSE,
                              panic |-> FALSE, res |-> NoResult]
                  /\ gs' = [gs EXCEPT ![g] = Returned(g)]
                  /\ UNCHANGED <<paths, compiles>>
             ELSE IF gs[g].path \in Malformed
             THEN /\ last' = [op |-> "GetCompiledPath", path |-> gs[g].path,
                              p |-> NilPath, compiled |-> TRUE,
                              panic |-> TRUE, res |-> NoResult]
                  /\ gs' = [gs EXCEPT ![g] = Returned(g)]
                  /\ compiles' = Counted(compiles, gs[g].path)
                  /\ UNCHANGED paths
             ELSE /\ BeginAccess(g, [gs[g] EXCEPT
                                        !.pc = "store",
                                        !.arg = MustCompile(gs[g].path),
                                        !.acc = "write"])
                  /\ compiles' = Counted(compiles, gs[g].path)
                  /\ UNCHANGED <<paths, last>>
    /\ UNCHANGED <<aggVars, seeded>>

\* AddToCache: cache.paths[uncompiled] = compiled begins
GoAddToCache(g, uncompiled, compiled) ==
    /\ ~last.panic
    /\ gs[g].pc = "idle"
    /\ gs[g].calls < MaxCalls
    /\ BeginAccess(g, [gs[g] EXCEPT !.pc = "store", !.op = "AddToCache",
                                    !.path = uncompiled, !.arg = compiled,
                                    !.acc = "write", !.calls = @ + 1])
    /\ UNCHANGED <<aggVars, cacheVars>>

\* the map write ends, and the operation returns
GoStoreDone(g) ==
    /\ ~last.panic
    /\ gs[g].pc = "store"
    /\ gs' = [gs EXCEPT ![g] = Returned(g)]
    /\ \/ /\ gs[g].raced
          /\ last' = Fatal(g)
          /\ UNCHANGED <<paths, seeded>>
       \/ /\ \/ paths' = AddToCache(paths, gs[g].path, gs[g].arg)
             \/ gs[g].raced /\ paths' = paths
          /\ seeded' = IF gs[g].op = "AddToCache"
                       THEN [s \in (DOMAIN seeded) \cup {gs[g].path} |->
                                IF s = gs[g].path THEN gs[g].arg
                                ELSE seeded[s]]
                       ELSE seeded
          /\ last' = [op |-> gs[g].op, path |-> gs[g].path,
                      p |-> gs[g].arg,
                      compiled |-> gs[g].op = "GetCompiledPath",
                      panic |-> FALSE, res |-> NoResult]
    /\ UNCHANGED <<aggVars, compiles>>

\* Clear: the assignment to cache.paths begins
GoClear(g) ==
    /\ ~last.panic
    /\ gs[g].pc = "idle"
    /\ gs[g].calls < MaxCalls
    /\ BeginAccess(g, [gs[g] EXCEPT !.pc = "clear", !.op = "Clear",
                                    !.acc = "write", !.calls = @ + 1])
    /\ UNCHANGED <<aggVars, cacheVars>>

\* Clear: the assignment ends
GoClearDone(g) ==
    /\ ~last.panic
    /\ gs[g].pc = "clear"
    /\ gs' = [gs EXCEPT ![g] = Returned(g)]
    /\ paths' = Clear(paths)
    /\ compiles' = [s \in {} |-> 0]
    /\ seeded' = EmptyMap
    /\ last' = [op |-> "Clear", path |-> "", p |-> NilPath,
                compiled |-> FALSE, panic |-> FALSE, res |-> NoResult]
    /\ UNCHANGED aggVars

ConcNext ==
    \/ \E g \in Goroutines, path \in Selectors : GoGetCompiledPath(g, path)
    \/ \E g \in Goroutines : GoLookupDone(g)
    \/ \E g \in Goroutines, uncompiled \in Selectors, compiled \in Queries :
          GoAddToCache(g, uncompiled, compiled)
    \/ \E g \in Goroutines : GoStoreDone(g)
    \/ \E g \in Goroutines : GoClear(g)
    \/ \E g \in Goroutines : GoClearDone(g)

SpecConc == Init /\ [][ConcNext]_vars

(***************************************************************************)
(* The properties of the aggregation (specification Spec).                 *)
(***************************************************************************)
RECURSIVE ListedFiles(_, _)
\* the records of the files pages p.. of which page q held counts[q] rows,
\* page after page and row after row
ListedFiles(counts, p) ==
    IF p > Len(counts) THEN <<>>
    ELSE [i \in 1..counts[p] |-> File("files", p, i)]
         \o ListedFiles(counts, p + 1)

\* the records of Downloads that a files page contributed
FromFiles(downloads) == SelectSeq(downloads, LAMBDA f : f.from = "files")

\* the run listed files and succeeded
FilesSucceeded ==
    /\ pc = "returned"
    /\ ret.err = NilErr
    /\ served # <<>>

\* C1: when all fetches and parses of a files listing succeed, Downloads
\* holds the records of page 1, then those of page 2, and so on up to the
\* highest page index the first page shows, each page's records in document
\* order (records of the overview's recent files, if any, stay together
\* before or after them).
DownloadsInPageOrder ==
    FilesSucceeded =>
        /\ FromFiles(results.Downloads) = ListedFiles(served, 1)
        /\ \E k \in 0..Len(results.Downloads) :
              SubSeq(results.Downloads, k + 1,
                     k + Len(ListedFiles(served, 1))) = ListedFiles(served, 1)
        /\ pageCount >= FirstLoopPage => Len(served) = pageCount

\* C1 witness: a listing of three pages with rows on each was aggregated
ThreePagesAggregated ==
    /\ FilesSucceeded
    /\ served = <<2, 1, 2>>
    /\ pageCount = 3
    /\ Len(results.Downloads) = 5

\* the call returned an error from a files page after the first
LaterPageFailed ==
    /\ pc = "returned"
    /\ ret.err # NilErr
    /\ fetchLog # <<>>
    /\ fetchLog[Len(fetchLog)].page >= FirstLoopPage

\* C2: when the fetch or the parse of a files page p >= 2 fails, the caller
\* sees none of the records of the pages 1..p-1: FetchCurseForge hands back
\* no result, and the result the caller gave to ParseCurseForge holds no
\* record.
NoPartialResult ==
    LaterPageFailed =>
        /\ ret.results # "results"
        /\ entry = "Parse" => results.Downloads = <<>>

\* C8: a first files page without pagination controls is the whole listing:
\* no further page is fetched, and Downloads holds the records of that page.
NoControlsSinglePage ==
    (served # <<>> /\ firstLabels = <<>>) =>
        /\ pc # "files"
        /\ Len(served) = 1
        /\ \A i \in DOMAIN fetchLog : fetchLog[i].page = 1
        /\ FilesSucceeded =>
              FromFiles(results.Downloads)
                  = [i \in 1..served[1] |-> File("files", 1, i)]

\* C8 witness: a page of two records and no controls was aggregated without
\* the single-page option
NoControlsAggregated ==
    /\ FilesSucceeded
    /\ firstLabels = <<>>
    /\ ~OptionsHas(options, CFOptionFilesNoPagination)
    /\ served = <<2>>
    /\ Len(results.Downloads) = 2

\* the message parts of an error
Parts(e) == {e[i] : i \in DOMAIN e}

\* C9: with CFOptionFilesNoPagination only the first files page is parsed:
\* no later page is fetched and the pagination labels make no call fail.
NoPaginationFirstPageOnly ==
    OptionsHas(options, CFOptionFilesNoPagination) =>
        /\ pc # "files"
        /\ Len(served) <= 1
        /\ \A i \in DOMAIN fetchLog : fetchLog[i].page = 1
        /\ "error parsing page number" \notin Parts(ret.err)
        /\ (served # <<>> /\ pc = "returned" /\ entry = "Parse") =>
              \/ ret.err = NilErr
              \/ "error parsing first files page" \in Parts(ret.err)

\* C9 witness: the option was set, the first page showed several pages and
\* a label that is no number, and the call succeeded with that page's records
NoPaginationIgnoredLabels ==
    /\ FilesSucceeded
    /\ OptionsHas(options, CFOptionFilesNoPagination)
    /\ firstLabels = <<ToDigits(2), <<"x">> >>
    /\ served = <<1>>

\* C10: when the call has returned, every response body handed out during
\* it is closed.
AllBodiesClosed ==
    pc = "returned" => \A i \in DOMAIN streams : ~streams[i].open

(***************************************************************************)
(* The properties of the cache (specification SpecCache).                  *)
(***************************************************************************)
\* the operations that resolve a selector through GetCompiledPath
Resolving == {"GetCompiledPath"} \cup AccessorKinds

\* C3: between two calls of Clear the compiler is invoked at most once for
\* a selector text, and a call that finds the selector in the cache returns
\* the cached compiled path without invoking the compiler.
CompiledAtMostOnce ==
    /\ [](\A s \in DOMAIN compiles : compiles[s] <= 1)
    /\ [][(last'.op \in Resolving /\ last'.path \in DOMAIN paths) =>
             /\ ~last'.compiled
             /\ last'.p = paths[last'.path]
             /\ compiles' = compiles
             /\ paths' = paths]_vars

\* C3 witness: a selector compiled by an earlier call was asked for again
\* and the cached path came back
SecondCallServedFromCache ==
    /\ last.op = "GetCompiledPath"
    /\ last.path = "//a"
    /\ ~last.compiled
    /\ Count(compiles, "//a") = 1
    /\ last.p = MustCompile("//a")

\* a selector the compiler rejects was resolved, and AddToCache stored no
\* entry for it
RejectedResolved ==
    /\ last.op \in Resolving
    /\ last.path \in Malformed
    /\ last.path \notin DOMAIN seeded

CacheOnlyGrows == [][DOMAIN paths \subseteq DOMAIN paths']_vars

\* C6: GetCompiledPath, AddToCache and the typed accessors remove no entry;
\* Clear removes all of them.
CacheGrowsUntilClear ==
    [][/\ last'.op # "Clear" => DOMAIN paths \subseteq DOMAIN paths'
       /\ last'.op = "Clear" => DOMAIN paths' = {}]_vars

\* C6 witness: the cache holds an entry for every selector after a call of
\* AddToCache
ThreeEntriesKept ==
    /\ last.op = "AddToCache"
    /\ DOMAIN paths = Selectors
    /\ Count(compiles, "//a") = 1

\* C7: AddToCache stores the compiled path it is given under the selector
\* text, replacing an entry and leaving the others as they were; until
\* Clear or another AddToCache for that text, GetCompiledPath returns that
\* path and does not invoke the compiler.
AddToCacheStoresUnvalidated ==
    /\ [](\A s \in DOMAIN seeded : s \in DOMAIN paths /\ paths[s] = seeded[s])
    /\ []((last.op = "GetCompiledPath" /\ last.path \in DOMAIN seeded) =>
             /\ last.p = seeded[last.path]
             /\ ~last.compiled
             /\ ~last.panic)
    /\ [][last'.op = "AddToCache" =>
             /\ DOMAIN paths' = (DOMAIN paths) \cup {last'.path}
             /\ paths'[last'.path] = last'.p
             /\ \A t \in (DOMAIN paths) \ {last'.path} : paths'[t] = paths[t]
             /\ compiles' = compiles]_vars

\* C7 witness: the path compiled from "//b" replaced the compiled entry of
\* "//a", and GetCompiledPath("//a") returned it
OtherPathReturned ==
    /\ last.op = "GetCompiledPath"
    /\ last.path = "//a"
    /\ Count(compiles, "//a") = 1
    /\ "//a" \in DOMAIN seeded
    /\ seeded["//a"] = MustCompile("//b")
    /\ last.p = MustCompile("//b")
    /\ ~last.compiled

(***************************************************************************)
(* The property of the cache under goroutines (specification SpecConc).    *)
(***************************************************************************)
\* C4: no goroutine writes cache.paths while another goroutine reads or
\* writes it.
NoUnsynchronizedAccess ==
    \A g \in Goroutines : \A h \in Goroutines \ {g} :
        ~(gs[g].acc = "write" /\ gs[h].acc # "none")

(***************************************************************************)
(* Further properties of the aggregation (specification Spec).             *)
(***************************************************************************)
\* ParseCurseForge returned an error about a value or a node it needs
RequiredValueMissing ==
    /\ entry = "Parse"
    /\ pc = "returned"
    /\ Parts(ret.err) \cap {"error resolving value", "did not find navbar",
                            "did not find atf section"} # {}

\* C11: when ParseCurseForge fails because a required value cannot be read,
\* the caller's results record is as it was before the call.
RecordUntouchedOnError == RequiredValueMissing => results = NewCurseForge

\* C12: an error of the files aggregation names the page that failed: the
\* index p of a page after the first, the first page otherwise.
FailureNamesPage ==
    LaterPageFailed =>
        /\ ToString(fetchLog[Len(fetchLog)].page) \in Parts(ret.err)
        /\ "error parsing first files page" \notin Parts(ret.err)

(***************************************************************************)
(* Properties of one page parse (specification SpecPage).                  *)
(***************************************************************************)
\* the page parsed holds every value its parser needs, well-formed
RequiredPresent ==
    \/ /\ last.op = "ParseCurseForge"
       /\ last.in.html
       /\ last.in.header = 0
       /\ last.in.sidebar
    \/ /\ last.op = "ParseCurse"
       /\ last.in.url
       /\ last.in.html
       /\ last.in.fail = 0
       /\ last.in.words = 2

\* C13: a page that holds every required value parses without error
\* whichever of its optional links (Wiki, Source, Donation on CurseForge,
\* Donation on mods.curse.com) are missing, and the URL fields of the
\* missing links are nil.
OptionalLinksNeverFail ==
    RequiredPresent =>
        /\ pc = "returned"
        /\ ret.err = NilErr
        /\ (last.op = "ParseCurseForge" /\ last.parseHeader
               => results.nils = last.in.absent)
        /\ (last.op = "ParseCurse" => ret.results.nils = last.in.absent)

\* a CurseForge page without any of the three links was parsed
AllLinksMissingParsed ==
    /\ last.op = "ParseCurseForge"
    /\ last.parseHeader
    /\ last.in.absent = Optional(HeaderSteps)
    /\ RequiredPresent
    /\ pc = "returned"
    /\ Cardinality(results.nils) = 3

(***************************************************************************)
(* Properties of the conversions of util.go (specification SpecUtil).      *)
(***************************************************************************)
\* a typed accessor was called with a selector that selects nothing
NothingSelected ==
    /\ last.op \in AccessorKinds \cup {"URL", "URLWithBase", "URLWithBaseURL"}
    /\ last.arg = <<>>

\* the neutral value: nil URL, 0, the Unix epoch
NeutralValue ==
    /\ last.res.url = NilURL
    /\ last.res.val = Zero
    /\ last.res.clamp = "none"

\* String and Node report found=false and have no error to return
NotFoundNoError ==
    last.op \in {"String", "Node"} =>
        ~last.res.found /\ last.res.err = "nil"

\* C14 as stated: for a selector that selects nothing, String and Node
\* return found=false and no error; URL, URLWithBase, URLWithBaseURL, UInt,
\* Int and UnixTimestamp return the 'not found' error and the neutral value.
AbsenceContractAnyBase ==
    NothingSelected =>
        /\ NotFoundNoError
        /\ (last.op \in {"URL", "URLWithBase", "URLWithBaseURL", "UInt",
                         "Int", "UnixTimestamp"}
               => last.res.err = "node not found" /\ NeutralValue)

\* C14: for a selector that selects nothing, String and Node return
\* found=false and no error; URL, URLWithBaseURL, UInt, Int and
\* UnixTimestamp return the 'not found' error and the neutral value, and so
\* does URLWithBase when its base text parses; when the base text does not
\* parse, URLWithBase returns the error of parsing the base and a nil URL.
\* None of the six returns a nil error.
AbsenceContract ==
    NothingSelected =>
        /\ NotFoundNoError
        /\ (last.op \in {"URL", "URLWithBaseURL", "UInt", "Int",
                         "UnixTimestamp"}
               => last.res.err = "node not found" /\ NeutralValue)
        /\ (last.op = "URLWithBase"
               => /\ NeutralValue
                  /\ last.res.err # "nil"
                  /\ IF UrlParse(TrimSpace(last.base)).err = "nil"
                     THEN last.res.err = "node not found"
                     ELSE last.res.err = UrlParse(TrimSpace(last.base)).err)

\* URLWithBase was called with a base that does not parse and a selector
\* that selects nothing
AbsentWithUnparsedBase ==
    /\ last.op = "URLWithBase"
    /\ last.arg = <<>>
    /\ last.base = <<":", "b">>
    /\ last.res.err = "missing protocol scheme"

\* ParseUInt or ParseInt was called
NumberParsed == last.op \in {"ParseUInt", "ParseInt"}

NoError == last.res.err = "nil"

\* C15: ParseUInt and ParseInt return 0 and no error for every text whose
\* trimmed form is "-".
DashIsZero ==
    NumberParsed /\ TrimSpace(last.arg) = <<"-">> =>
        NoError /\ last.res.val = Zero

\* ParseInt was given a dash between two spaces
PaddedDashParsed ==
    /\ last.op = "ParseInt"
    /\ last.arg = <<" ", "-", " ">>
    /\ NoError

\* C16: a number with commas surrounded by whitespace is parsed by ParseUInt
\* and ParseInt as the number without the whitespace, with no error.
PaddedNumberParsed ==
    NumberParsed /\ last.arg \in PaddedNumbers =>
        /\ NoError
        /\ last.res.val = Numeral(RemoveCommas(TrimSpace(last.arg)))

\* C17: ParseUInt gives back every number of 0..2^64-1 from its decimal
\* numeral written with a comma before every group of three digits.
RoundTrip ==
    \A d \in Numerals :
        ~OverflowsUint64(d)
        /\ last.op = "ParseUInt" /\ last.arg = FormatWithSeparators(d)
            => NoError /\ last.res.val = d

\* the largest uint64 made the round trip
LargestParsedBack ==
    /\ last.op = "ParseUInt"
    /\ Len(last.arg) = 26
    /\ last.arg = FormatWithSeparators(MaxUint64Digits)
    /\ last.res.val = MaxUint64Digits

\* the text without its commas is no numeral of a uint64
Malformed64(text) ==
    LET str == SelectSeq(text, LAMBDA c : c # ",")
    IN \/ str = <<>>
       \/ \E i \in 1..Len(str) : str[i] \notin {Digits[k] : k \in 1..10}
       \/ OverflowsUint64(str)

\* C18: ParseUInt returns an error for every text, the dash token apart,
\* that without its commas is empty, holds a character that is no digit, or
\* denotes a number above 2^64-1.
MalformedNumberRejected ==
    /\ last.op = "ParseUInt"
    /\ TrimSpace(last.arg) # <<"-">>
    /\ Malformed64(last.arg)
    => ~NoError

\* ParseUInt rejected "12a"
LetterRejected ==
    /\ last.op = "ParseUInt"
    /\ last.arg = <<"1", "2", "a">>
    /\ last.res.err = "invalid syntax"

\* C19: UnixTimestamp returns the UTC time n seconds after the epoch and no
\* error for a text ParseInt accepts with the value n; for a text ParseInt
\* rejects and for a missing node it returns the error of Int and the Unix
\* epoch in UTC.
TimestampOrEpoch ==
    last.op = "UnixTimestamp" =>
        LET n == ParseInt(TrimSpace(last.arg[1]))
        IN /\ last.res.loc = "UTC"
           /\ last.res.clamp = "none"
           /\ IF last.arg = <<>>
              THEN last.res.err = "node not found" /\ last.res.val = Zero
              ELSE IF n.err = "nil"
              THEN NoError /\ last.res.val = n.val
              ELSE last.res.err = n.err /\ last.res.val = Zero

\* UnixTimestamp returned a time before the epoch
NegativeTimestamp ==
    /\ last.op = "UnixTimestamp"
    /\ last.arg = << <<"-", "4", "2">> >>
    /\ last.res.val = <<"-", "4", "2">>
    /\ last.res.loc = "UTC"
    /\ NoError

\* a URL accessor, or ParseURL, was given a text that begins with "//" and
\* returned a URL
SchemelessResolved ==
    /\ last.op \in {"ParseURL", "URL", "URLWithBase", "URLWithBaseURL"}
    /\ (IF last.op = "ParseURL" THEN last.arg
        ELSE IF last.arg = <<>> THEN <<>> ELSE last.arg[1])
           \in SchemelessTexts
    /\ NoError

\* C20: a URL text that begins with "//" is returned with the scheme https
\* by URL, ParseURL, URLWithBase and URLWithBaseURL, whatever the base.
SchemelessIsHttps == SchemelessResolved => last.res.url.Scheme = HttpScheme

\* ParseURL has returned for a text url.Parse accepts
ParseURLParsed ==
    /\ last.op = "ParseURL"
    /\ UrlParse(last.arg).err = "nil"

\* C21: ParseURL returns an error for a text url.Parse rejects; for every
\* other text it returns no error, the scheme https when the parsed scheme
\* is empty and the parsed scheme otherwise, and the parsed host, path and
\* query in both cases.
ParseURLDefaultsScheme ==
    last.op = "ParseURL" =>
        IF ParseURLParsed
        THEN /\ last.res.err = "nil"
             /\ last.res.url.Scheme =
                   IF UrlParse(last.arg).url.Scheme = <<>> THEN HttpScheme
                   ELSE UrlParse(last.arg).url.Scheme
             /\ last.res.url.Host = UrlParse(last.arg).url.Host
             /\ last.res.url.Path = UrlParse(last.arg).url.Path
             /\ last.res.url.RawQuery = UrlParse(last.arg).url.RawQuery
        ELSE last.res.err # "nil"

\* ParseURL("//h/x?q#f") has returned https://h/x?q#f
SchemelessDefaulted ==
    /\ ParseURLParsed
    /\ last.arg = <<"/", "/", "h", "/", "x", "?", "q", "#", "f">>
    /\ last.res.url.Scheme = HttpScheme
    /\ last.res.url.Host = <<"h">>
    /\ last.res.url.Path = <<"/", "x">>
    /\ last.res.url.RawQuery = <<"q">>

\* URLWithBase or URLWithBaseURL has been called on a selected text
ResolveCalled ==
    /\ last.op \in {"URLWithBase", "URLWithBaseURL"}
    /\ last.arg # <<>>

\* the reference url.Parse makes of the selected text
RefParsed == UrlParse(TrimSpace(String(last.arg).text))

\* the base url.Parse makes of the base text, which URLWithBase trims
BaseParsed ==
    UrlParse(IF last.op = "URLWithBase" THEN TrimSpace(last.base)
             ELSE last.base)

\* the reference is an absolute path without scheme and host, the base has
\* a scheme and a host
AbsolutePathResolved ==
    /\ ResolveCalled
    /\ RefParsed.err = "nil"
    /\ BaseParsed.err = "nil"
    /\ RefParsed.url.Scheme = <<>>
    /\ RefParsed.url.Host = <<>>
    /\ HasPrefix(RefParsed.url.Path, <<"/">>)
    /\ BaseParsed.url.Scheme # <<>>
    /\ BaseParsed.url.Host # <<>>

\* the result has the scheme and the host of the base
OnBaseHost ==
    /\ last.res.err = "nil"
    /\ last.res.url.Scheme = BaseParsed.url.Scheme
    /\ last.res.url.Host = BaseParsed.url.Host

\* C22 as stated: an absolute-path reference /p resolved against a base
\* with scheme s and host h gives scheme s, host h and the path /p.
AbsolutePathTaken ==
    AbsolutePathResolved =>
        /\ OnBaseHost
        /\ last.res.url.Path = RefParsed.url.Path

\* the path p without its "." and ".." segments
WithoutDots(p) == ResolvedPath(p, SplitSlash(p))

\* C22: an absolute-path reference /p resolved against a base with scheme
\* s and host h gives scheme s, host h, the query of the reference and the
\* path /p with its dot segments removed; nothing of the base's path is in
\* the result.
AbsolutePathReplacesBasePath ==
    AbsolutePathResolved =>
        /\ OnBaseHost
        /\ last.res.url.Path = WithoutDots(RefParsed.url.Path)
        /\ last.res.url.RawQuery = RefParsed.url.RawQuery

\* "/a/../b" against https://b/p/q has been resolved to https://b/b
DotSegmentsResolved ==
    /\ AbsolutePathResolved
    /\ last.arg = << <<"/", "a", "/", ".", ".", "/", "b">> >>
    /\ BaseParsed.url.Path = <<"/", "p", "/", "q">>
    /\ BaseParsed.url.Scheme = HttpScheme
    /\ last.res.url.Host = <<"b">>
    /\ last.res.url.Path = <<"/", "b">>

\* the reference has a scheme: it is an absolute URL
AbsoluteResolved ==
    /\ ResolveCalled
    /\ RefParsed.err = "nil"
    /\ BaseParsed.err = "nil"
    /\ RefParsed.url.Scheme # <<>>

\* the result has the scheme, host and query of the reference
OnRefHost ==
    /\ last.res.err = "nil"
    /\ last.res.url.Scheme = RefParsed.url.Scheme
    /\ last.res.url.Host = RefParsed.url.Host
    /\ last.res.url.Opaque = RefParsed.url.Opaque
    /\ last.res.url.RawQuery = RefParsed.url.RawQuery

Selected(s) ==
    IF s = CFSectionHeader THEN {CFSectionHeader}
    ELSE {sec \in DerivedSections : SectionsHas(s, sec)}

\* FetchCurseForge has returned a record and no error
FetchSucceeded ==
    /\ entry = "Fetch"
    /\ pc = "returned"
    /\ ret.err = NilErr

\* the fetches made so far follow the protocol: selected sections only,
\* each once, pages above 1 only of the files section after its first
\* page, parseHeader on the first response and on no other
FetchesFollowProtocol ==
    /\ \A i \in DOMAIN fetchLog :
          /\ fetchLog[i].sec \in Selected(sections)
          /\ fetchLog[i].hdr <=> (i = 1 /\ fetchLog[i].ok)
          /\ fetchLog[i].page > 1 =>
                /\ i > 1
                /\ fetchLog[i].sec = CFSectionFiles
                /\ fetchLog[i - 1].sec = CFSectionFiles
    /\ \A i, j \in DOMAIN fetchLog :
          (fetchLog[i].sec = fetchLog[j].sec
           /\ fetchLog[i].page = fetchLog[j].page) => i = j
    /\ FetchSucceeded =>
          {fetchLog[i].sec : i \in DOMAIN fetchLog} = Selected(sections)
    /\ sections = CFSectionHeader =>
          /\ Len(fetchLog) <= 1
          /\ results.overview = 0
          /\ results.Downloads = <<>>

\* the responses parsed with parseHeader
HeaderParses == {i \in DOMAIN fetchLog : fetchLog[i].hdr}

\* C24 as stated: the fetches follow the section protocol and the header
\* is parsed exactly once in every call that succeeds.
SectionProtocolAlwaysHeader ==
    entry = "Fetch" =>
        /\ FetchesFollowProtocol
        /\ FetchSucceeded => Cardinality(HeaderParses) = 1

\* C24: the fetches follow the section protocol, and in a call that
\* succeeds the header is parsed exactly once, on the first page fetched,
\* when a section bit of Overview, Files or Images is set or sections is
\* CFSectionHeader; with no such bit set nothing is fetched or parsed.
SectionProtocol ==
    entry = "Fetch" =>
        /\ FetchesFollowProtocol
        /\ FetchSucceeded =>
              IF Selected(sections) = {}
              THEN fetchLog = <<>> /\ results = NewCurseForge
              ELSE /\ HeaderParses = {1}
                   /\ results.header =
                         FieldsBefore(HeaderSteps, HeaderNodes,
                                      Len(HeaderSteps) + 1)

\* FetchCurseForge with the three section bits set has returned after
\* fetching the three sections and a second files page
ThreeSectionsFetched ==
    /\ FetchSucceeded
    /\ sections = CFSectionOverview + CFSectionFiles + CFSectionImages
    /\ Len(fetchLog) = 4
    /\ fetchLog[1].hdr
    /\ fetchLog[1].sec = CFSectionImages

\* FetchCurseForge(projectURL, 8, options) has returned an empty record
ReservedBitOnly ==
    /\ FetchSucceeded
    /\ sections = 8

\* DeriveCurseForgeURLs has returned
Derived == last.op = "DeriveCurseForgeURLs"

\* the URL the project text parses to
ProjectParsed == UrlParse(last.arg).url

\* the path p with the segment seg appended
AppendSegment(p, seg) ==
    IF p = <<>> \/ p[Len(p)] = "/" THEN p \o seg ELSE p \o <<"/">> \o seg

\* no error, no fetch, the project URL as it was, the overview entry the
\* project URL, and the two other entries with the scheme, host, user and
\* query of the project URL
DerivedKeepsProject ==
    /\ last.res.err = "nil"
    /\ fetchLog = <<>>
    /\ last.base = ProjectParsed
    /\ DOMAIN last.res.urls = DerivedSections
    /\ last.res.urls[CFSectionOverview] = ProjectParsed
    /\ \A section \in {CFSectionFiles, CFSectionImages} :
          /\ last.res.urls[section].Scheme = ProjectParsed.Scheme
          /\ last.res.urls[section].Host = ProjectParsed.Host
          /\ last.res.urls[section].User = ProjectParsed.User
          /\ last.res.urls[section].RawQuery = ProjectParsed.RawQuery

\* C25 as stated: the files and images entries are the project URL with
\* the segment "files" or "images" appended to its path.
DerivedAppendsSegment ==
    Derived =>
        /\ DerivedKeepsProject
        /\ \A section \in {CFSectionFiles, CFSectionImages} :
              last.res.urls[section].Path =
                 AppendSegment(ProjectParsed.Path, Relatives(section))

\* C25: the files and images entries have the path of the project URL
\* with the segment appended and then cleaned (no repeated "/", no "."
\* and ".." segments), which is the path with the segment appended when
\* the project path is clean; they have no fragment; the rest is kept.
DerivedAppendsAndCleans ==
    Derived =>
        /\ DerivedKeepsProject
        /\ \A section \in {CFSectionFiles, CFSectionImages} :
              /\ last.res.urls[section].Path =
                    Clean(AppendSegment(ProjectParsed.Path,
                                        Relatives(section)))
              /\ ProjectParsed.Path \in {<<>>, Clean(ProjectParsed.Path)} =>
                    last.res.urls[section].Path =
                       AppendSegment(ProjectParsed.Path, Relatives(section))
              /\ last.res.urls[section].Fragment = <<>>

\* DeriveCurseForgeURLs of https://h/a/../b has returned https://h/b/files
DerivedFromDottedPath ==
    /\ Derived
    /\ ProjectParsed.Path = <<"/", "a", "/", ".", ".", "/", "b">>
    /\ ProjectParsed.Host = <<"h">>
    /\ last.res.urls[CFSectionFiles].Path =
          <<"/", "b", "/", "f", "i", "l", "e", "s">>
    /\ last.res.urls[CFSectionFiles].Host = <<"h">>
    /\ last.res.urls[CFSectionFiles].Scheme = HttpScheme

\* DeriveCurseForgeURLs of http://u:w@h:8/p?q#f has returned the files URL
\* http://u:w@h:8/p/files?q
DerivedWithUser ==
    /\ Derived
    /\ ProjectParsed.User = << <<"u", ":", "w">> >>
    /\ ProjectParsed.Fragment = <<"f">>
    /\ last.res.urls[CFSectionFiles].User = << <<"u", ":", "w">> >>
    /\ last.res.urls[CFSectionFiles].Host = <<"h", ":", "8">>
    /\ last.res.urls[CFSectionFiles].Path = <<"/", "p", "/", "f", "i", "l", "e", "s">>

\* the fetches parseCFFiles made: those of the pages after the first
LaterFetches == SelectSeq(fetchLog, LAMBDA f : f.page >= FirstLoopPage)

\* the number ParseUInt reads in a pagination label
LabelValue(label) == DigitsValue(ParseUInt(label).val)

\* the highest number of the labels, 0 without labels
MaxLabel(labels) ==
    IF labels = <<>> THEN 0
    ELSE CHOOSE m \in {LabelValue(labels[i]) : i \in DOMAIN labels} :
            \A i \in DOMAIN labels : LabelValue(labels[i]) <= m

\* the files listing was walked to its end without an error
WalkSucceeded ==
    /\ FilesSucceeded
    /\ ~OptionsHas(options, CFOptionFilesNoPagination)

\* C26: the page count is the highest label of the first files page; the
\* pages fetched after it are 2, 3, ... in this order, each once, none
\* above the page count, each only after the page before it was fetched,
\* parsed and appended; a walk that succeeds fetched every page from 2 to
\* the page count.
PagesWalkedInOrder ==
    /\ \A k \in DOMAIN LaterFetches :
          /\ LaterFetches[k].sec = CFSectionFiles
          /\ LaterFetches[k].page = k + 1
          /\ LaterFetches[k].page <= MaxLabel(firstLabels)
          /\ k < Len(LaterFetches) => LaterFetches[k].ok
          /\ Len(served) >= k
    /\ pc = "files" =>
          /\ Len(LaterFetches) = page - FirstLoopPage
          /\ Len(served) = page - 1
          /\ pageCount = MaxLabel(firstLabels)
          /\ FromFiles(results.Downloads) = ListedFiles(served, 1)
    /\ WalkSucceeded =>
          Len(LaterFetches) =
             (IF MaxLabel(firstLabels) > 1 THEN MaxLabel(firstLabels)
              ELSE 1) - 1

\* a walk over the labels 1 and 3 has fetched the pages 2 and 3 and
\* returned
PagesTwoAndThreeFetched ==
    /\ WalkSucceeded
    /\ firstLabels = <<ToDigits(1), ToDigits(3)>>
    /\ Len(LaterFetches) = 2
    /\ LaterFetches[1].page = 2
    /\ LaterFetches[2].page = 3

\* the files pages the parsers were handed: the response the caller of
\* ParseCurseForge fetched, and the fetches of the package that succeeded
FilesReceived ==
    (IF entry = "Parse" /\ sections = CFSectionFiles THEN 1 ELSE 0)
    + Cardinality({i \in DOMAIN fetchLog :
                      fetchLog[i].sec = CFSectionFiles /\ fetchLog[i].ok})

\* a later files page was not fetched
LaterFetchFailed == \E k \in DOMAIN LaterFetches : ~LaterFetches[k].ok

\* a files page was no markup, or its header was not parsed: its rows
\* were not read
PageNotListed == FilesReceived > Len(served)

\* a files page did not yield all its rows
RecordsMissing ==
    Len(FromFiles(results.Downloads)) < Len(ListedFiles(served, 1))

\* the first files page yielded its rows and the scan of its labels met a
\* label that is no number
LabelRejected ==
    /\ served # <<>>
    /\ Len(FromFiles(results.Downloads)) >= served[1]
    /\ ~OptionsHas(options, CFOptionFilesNoPagination)
    /\ \E i \in DOMAIN firstLabels : ParseUInt(firstLabels[i]).err # "nil"

\* C27: when the first files page fails to parse, a pagination label is no
\* number, or a later page fails to be fetched, to parse as markup or to
\* yield its records, the run has returned a non-nil error, and the page
\* that failed is the last page fetched.
AbortOnFirstFailure ==
    /\ (LaterFetchFailed \/ PageNotListed \/ RecordsMissing \/ LabelRejected)
          => /\ pc = "returned"
             /\ ret.err # NilErr
             /\ ret.results # "results"
    /\ \A k \in DOMAIN LaterFetches :
          ~LaterFetches[k].ok => k = Len(LaterFetches)
    /\ RecordsMissing => Len(LaterFetches) = Len(served) - 1

\* the second of three files pages missed a value of its second row:
\* FetchCurseForge returned the error without fetching page 3
SecondPageAborted ==
    /\ entry = "Fetch"
    /\ pageCount = 3
    /\ served = <<1, 2>>
    /\ RecordsMissing
    /\ Len(LaterFetches) = 1
    /\ ret.err # NilErr

\* ParseCurseForge was called with section Overview on a page that has
\* what the header needs and no 'e-project-details-secondary' node
SidebarMissing ==
    /\ last.op = "ParseCurseForge"
    /\ sections = CFSectionOverview
    /\ last.in.html
    /\ last.in.header = 0
    /\ ~last.in.sidebar

\* C28: an overview page without the sidebar node makes ParseCurseForge
\* return a non-nil error; the call does not panic.
MissingSidebarIsError ==
    SidebarMissing =>
        /\ pc = "returned"
        /\ ret.err # NilErr

\* the second of two calls of FetchCurseForge with the same arguments on
\* the same site has returned
SecondRunReturned ==
    /\ last.op = "FetchCurseForge"
    /\ last.run = 2
    /\ pc = "returned"

\* C29: the second call returns what the first returned: the same record
\* (Downloads in the same order) and error, the header parsed from the
\* same page, the sections fetched in the same order.
SameResultInBothRuns ==
    SecondRunReturned =>
        /\ results = last.first.results
        /\ ret = last.first.ret
        /\ [i \in DOMAIN fetchLog |-> fetchLog[i].sec] = last.first.fetched

\* the page loop of parseCFFiles is running or has returned
Walking == last.op = "parseCFFiles"

\* C30: the counter of the page loop never leaves the pages 2..pageCount+1
\* and only pages 2..pageCount are fetched; when no fetch and no parse
\* fails the loop returns after the fetch of page pageCount, that is after
\* max(pageCount,1)-1 fetches, for every page count of 64 bits.
PageLoopStaysInRange ==
    Walking =>
        /\ pc = "walk" =>
              /\ NumLE(ToDigits(FirstLoopPage), page)
              /\ NumLE(page, pageCount)
        /\ last.fetched # <<>> =>
              /\ NumLE(ToDigits(FirstLoopPage), last.fetched)
              /\ NumLE(last.fetched, pageCount)
        /\ (pc = "returned" /\ ret.err = NilErr) =>
              /\ page = IncDigits(pageCount) \/ last.fetched = <<>>
              /\ last.fetched # <<>> => last.fetched = pageCount

====
